---- MODULE Spec2Model ----
(***************************************************************************)
(* libMSDF: single glyph MSDF / MTSDF generation.                          *)
(*                                                                         *)
(* The model covers the C++ core (core.h), the WASM binding with its       *)
(* global scratch buffers (wasm_binding.cpp) and the TypeScript wrapper    *)
(* MSDFGenerator (msdf-generator.ts).                                      *)
(*                                                                         *)
(* Doubles are modelled as exact rationals [n, d] (d > 0, lowest terms;    *)
(* d = 0 for a non-finite value); the narrowing to float is the identity   *)
(* on the small values used here.  A font is a short byte string; the      *)
(* FreeType / msdfgen library calls are operators over the parsed font.    *)
(***************************************************************************)
EXTENDS Integers, Sequences, FiniteSets, TLC

VARIABLES
    g_fontBuffer,   \* wasm_binding.cpp: std::vector<uint8_t> g_fontBuffer
    g_pixelBuffer,  \* wasm_binding.cpp: std::vector<float> g_pixelBuffer
    g_axesBuffer,   \* wasm_binding.cpp: std::vector<VariationAxis> g_axesBuffer
    fontLoaded,     \* MSDFGenerator.fontLoaded
    fontLen,        \* MSDFGenerator.fontLen
    last,           \* record of the most recent call on the instance
    first,          \* first generation call since the inputs of generation last changed
    disposed,       \* dispose() has been called on the instance at least once
    sinceDispose,   \* loadFont has been called since construction or the last dispose()
    env,            \* the inputs this caller passes (fixed for the life of the instance)
    workers         \* worker.ts / worker-deno.ts: the state of each worker thread spawned

vars == <<g_fontBuffer, g_pixelBuffer, g_axesBuffer, fontLoaded, fontLen, last, first,
          disposed, sinceDispose, env, workers>>

Null == "null"

----------------------------------------------------------------------------
(* Exact arithmetic standing for double arithmetic *)

Abs(x) == IF x < 0 THEN -x ELSE x

Sign(x) == IF x < 0 THEN -1 ELSE IF x > 0 THEN 1 ELSE 0

RECURSIVE GCD(_, _)
GCD(a, b) == IF b = 0 THEN a ELSE GCD(b, a % b)

Rat(n, d) ==
    IF d = 0 THEN [n |-> Sign(n), d |-> 0]
    ELSE LET g == GCD(Abs(n), Abs(d))
             s == IF d < 0 THEN -1 ELSE 1
         IN  [n |-> (s * n) \div g, d |-> (s * d) \div g]

R(i) == [n |-> i, d |-> 1]

RAdd(x, y) == Rat(x.n * y.d + y.n * x.d, x.d * y.d)
RSub(x, y) == Rat(x.n * y.d - y.n * x.d, x.d * y.d)
RMul(x, y) == Rat(x.n * y.n, x.d * y.d)
RDiv(x, y) == Rat(x.n * y.d, x.d * y.n)
RNeg(x)    == [n |-> -x.n, d |-> x.d]
RGeq(x, y) == x.n * y.d >= y.n * x.d
RLeq(x, y) == x.n * y.d <= y.n * x.d

\* (int)ceil(x) for a finite x
Ceil(x) == -((-x.n) \div x.d)

Min(a, b) == IF a <= b THEN a ELSE b
Max(a, b) == IF a >= b THEN a ELSE b

----------------------------------------------------------------------------
(* Fonts: byte strings handed to loadFont, and what FreeType makes of them *)

InterBytes   == <<73, 78, 84>>   \* a variable font (weight axis)
PoppinsBytes == <<80, 79>>       \* a static font
BadBytes     == <<0, 0>>         \* not a font

FontFiles == {InterBytes, PoppinsBytes, BadBytes}

CharA      == 65        \* glyph with an outline
CharSpace  == 32        \* glyph with no contours
CharB      == 66        \* mapped glyph whose outline data is corrupt
CharHyphen == 45        \* glyph whose outline has no height
CharEmoji  == 128512    \* 0x1F600: not in the cmap (glyph index 0)

CharCodes == {CharA, CharSpace, CharB, CharHyphen, CharEmoji}

\* design units per em of both fonts
UnitsPerEm == 2

DefaultWeight == 400

\* FT_Get_Char_Index: 0 when the codepoint is not mapped
CharIndex(face, charCode) ==
    CASE charCode = CharA     -> 1
      [] charCode = CharSpace -> 2
      [] charCode = CharB     -> 3
      [] charCode = CharHyphen -> 4
      [] OTHER                -> 0

\* FT_Load_Glyph + outline decomposition for a glyph index of a face at the
\* given design coordinates: ok is FALSE when the glyph cannot be decoded, else
\* the outline (its vertices, in order) and the advance in design units.
GlyphData(font, index) ==
    LET bold == font.face = "Inter" /\ font.wght >= 700
    IN  CASE index = 0 -> [ok |-> TRUE,
                           contours |-> << <<R(0), R(0)>>, <<R(1), R(0)>>, <<R(1), R(2)>>, <<R(0), R(2)>> >>,
                           advance |-> R(1)]
          [] index = 1 -> [ok |-> TRUE,
                           contours |-> IF bold
                                        THEN << <<R(-1), R(0)>>, <<R(2), R(0)>>, <<R(0), R(3)>> >>
                                        ELSE << <<R(-1), R(0)>>, <<R(1), R(0)>>, <<R(0), R(3)>> >>,
                           advance |-> IF bold THEN R(3) ELSE R(2)]
          [] index = 2 -> [ok |-> TRUE, contours |-> << >>, advance |-> R(1)]
          [] index = 4 -> [ok |-> TRUE, contours |-> << <<R(0), R(1)>>, <<R(1), R(1)>> >>,
                           advance |-> R(1)]
          [] OTHER     -> [ok |-> FALSE]

\* msdfgen::initializeFreetype: the library handle, or Null where FreeType
\* does not initialise
initializeFreetype == env.freetype

\* msdfgen::loadFontData: a font handle; ok is FALSE (a null handle) when the
\* bytes do not parse.  Bytes past the end of the buffer are unknown (-1).
loadFontData(ft, fontBytes, length) ==
    LET bytes == [i \in 1..length |-> IF i <= Len(fontBytes) THEN fontBytes[i] ELSE -1]
    IN  CASE ft = Null            -> [ok |-> FALSE]
          [] bytes = InterBytes   -> [ok |-> TRUE, face |-> "Inter", axes |-> {"Weight"}, wght |-> DefaultWeight]
          [] bytes = PoppinsBytes -> [ok |-> TRUE, face |-> "Poppins", axes |-> {}, wght |-> DefaultWeight]
          [] OTHER                -> [ok |-> FALSE]

\* msdfgen::getGlyphIndex: the index, and whether it is nonzero
getGlyphIndex(font, charCode) ==
    [index |-> CharIndex(font.face, charCode), ok |-> CharIndex(font.face, charCode) # 0]

\* msdfgen::loadGlyph(shape, font, unicode, &advance): loads the glyph the
\* cmap gives for the codepoint, which is glyph 0 for an unmapped codepoint
loadGlyph(font, charCode) ==
    LET g == GlyphData(font, CharIndex(font.face, charCode))
    IN  IF ~g.ok THEN [ok |-> FALSE]
        ELSE [ok |-> TRUE,
              shape |-> [contours |-> g.contours, normalized |-> FALSE, coloring |-> 0],
              advance |-> g.advance]

\* msdfgen::getFontMetrics: emSize
getFontMetrics(font) == [emSize |-> R(UnitsPerEm)]

\* msdfgen::setFontVariationAxis: TRUE and the updated font when the font has
\* an axis of that name
setFontVariationAxis(font, name, value) ==
    IF name \in font.axes
    THEN [ok |-> TRUE, font |-> [font EXCEPT !.wght = value]]
    ELSE [ok |-> FALSE, font |-> font]

\* Shape::normalize
normalize(shape) == [shape EXCEPT !.normalized = TRUE]

\* msdfgen::edgeColoringSimple(shape, angleThreshold)
edgeColoringSimple(shape, angleThreshold) ==
    [shape EXCEPT !.coloring = IF shape.normalized THEN angleThreshold ELSE -angleThreshold]

\* Shape::bound(l, b, r, t): widens the box passed in by every vertex
RECURSIVE boundPoints(_, _)
boundPoints(pts, box) ==
    IF pts = << >> THEN box
    ELSE LET p == Head(pts)
         IN  boundPoints(Tail(pts),
                 [l |-> IF RLeq(p[1], box.l) THEN p[1] ELSE box.l,
                  b |-> IF RLeq(p[2], box.b) THEN p[2] ELSE box.b,
                  r |-> IF RGeq(p[1], box.r) THEN p[1] ELSE box.r,
                  t |-> IF RGeq(p[2], box.t) THEN p[2] ELSE box.t])

bound(shape, box) == boundPoints(shape.contours, box)

\* the 1e240 the bounds start from (beyond every design coordinate)
Huge == 1000

\* msdfgen::generateMSDF / generateMTSDF into a width x height bitmap: the
\* samples are a function of the shape, the projection and the range, and the
\* raster is identified by them.
Raster(shape, width, height, scale, tx, ty, pixelRange, channels) ==
    <<shape, width, height, scale, tx, ty, pixelRange, channels>>

----------------------------------------------------------------------------
(* core.h *)

\* tagToName: the axis name of a standard tag, Null otherwise
tagToName(tag) ==
    CASE tag = <<"w", "g", "h", "t">> -> "Weight"
      [] tag = <<"w", "d", "t", "h">> -> "Width"
      [] tag = <<"o", "p", "s", "z">> -> "Optical Size"
      [] tag = <<"i", "t", "a", "l">> -> "Italic"
      [] tag = <<"s", "l", "n", "t">> -> "Slant"
      [] OTHER -> Null

\* applyVariationAxes: the font after the loop and the number of axes set
RECURSIVE applyVariationAxes(_, _, _)
applyVariationAxes(ft, font, axes) ==
    IF axes = << >> THEN [font |-> font, successCount |-> 0]
    ELSE LET name == tagToName(Head(axes).tag)
             set  == IF name # Null
                     THEN setFontVariationAxis(font, name, Head(axes).value)
                     ELSE [ok |-> FALSE, font |-> font]
             rest == applyVariationAxes(ft, set.font, Tail(axes))
         IN  [font |-> rest.font,
              successCount |-> rest.successCount + (IF set.ok THEN 1 ELSE 0)]

\* msdf_core::hasGlyph
core_hasGlyph(fontBytes, length, charCode) ==
    LET ft == initializeFreetype
    IN  IF ft = Null THEN FALSE
        ELSE LET font == loadFontData(ft, fontBytes, length)
             IN  IF ~font.ok THEN FALSE
                 ELSE LET glyphIndex == getGlyphIndex(font, charCode)
                      IN  glyphIndex.ok /\ glyphIndex.index # 0

\* the GlyphResult of an early return: success = false, nothing else set
FailedResult(channels) == [success |-> FALSE, channels |-> channels]

UnitBox == [l |-> R(0), b |-> R(0), r |-> R(1), t |-> R(1)]

StartBox == [l |-> R(Huge), b |-> R(Huge), r |-> R(-Huge), t |-> R(-Huge)]

\* generateOne with one step changed: without the replacement of empty
\* bounds by the unit box (unitBox = FALSE), or with the scale inverted
\* (invert = TRUE)
generateOne_changed(fontBytes, length, charCode, fontSize, pixelRange, unitBox, invert) ==
    LET \* 6. generate bitmap, 7. pack results
        Pack(loaded, shape, box, scale, frameL, frameB, width, height) ==
            [success     |-> TRUE,
             channels    |-> 3,
             width       |-> width,
             height      |-> height,
             advance     |-> RMul(loaded.advance, scale),
             planeBounds |-> <<RMul(box.l, scale), RMul(box.b, scale),
                               RMul(box.r, scale), RMul(box.t, scale)>>,
             atlasBounds |-> <<R(0), R(0), R(width), R(height)>>,
             pixels      |-> [len |-> width * height * 3,
                              src |-> Raster(shape, width, height, scale,
                                             RDiv(RNeg(frameL), scale), RDiv(RNeg(frameB), scale),
                                             pixelRange, 3)]]
        \* 5. dimensions: the frame around the scaled bounds
        Frame(loaded, shape, box, scale, range) ==
            LET frameL == RSub(RMul(box.l, scale), range)
                frameB == RSub(RMul(box.b, scale), range)
                frameR == RAdd(RMul(box.r, scale), range)
                frameT == RAdd(RMul(box.t, scale), range)
            IN  Pack(loaded, shape, box, scale, frameL, frameB,
                     Ceil(RSub(frameR, frameL)), Ceil(RSub(frameT, frameB)))
        \* 5. bounds: empty bounds are replaced by the unit box
        Bounds(font, loaded, shape, bnd) ==
            Frame(loaded, shape,
                  IF unitBox /\ (RGeq(bnd.l, bnd.r) \/ RGeq(bnd.b, bnd.t)) THEN UnitBox ELSE bnd,
                  IF invert /\ fontSize.n # 0
                  THEN RDiv(getFontMetrics(font).emSize, fontSize)
                  ELSE RDiv(fontSize, getFontMetrics(font).emSize),
                  RDiv(pixelRange, R(2)))
        \* 4. edge coloring
        Glyph(font, loaded) ==
            IF ~loaded.ok THEN FailedResult(3)
            ELSE Bounds(font, loaded, edgeColoringSimple(normalize(loaded.shape), 3),
                        bound(edgeColoringSimple(normalize(loaded.shape), 3), StartBox))
        \* 2. load font, 3. load shape
        Font(ft, font) ==
            IF ~font.ok THEN FailedResult(3)
            ELSE Glyph(font, loadGlyph(font, charCode))
        \* 1. initialize FreeType
        Freetype(ft) ==
            IF ft = Null THEN FailedResult(3)
            ELSE Font(ft, loadFontData(ft, fontBytes, length))
    IN  Freetype(initializeFreetype)

\* generateOne that keeps the empty bounds of a shape without contours
generateOne_noUnitBox(fontBytes, length, charCode, fontSize, pixelRange) ==
    generateOne_changed(fontBytes, length, charCode, fontSize, pixelRange, FALSE, FALSE)

\* generateOne with scale = emSize / fontSize
generateOne_invertedScale(fontBytes, length, charCode, fontSize, pixelRange) ==
    generateOne_changed(fontBytes, length, charCode, fontSize, pixelRange, TRUE, TRUE)

\* msdf_core::generateOne (3 channels)
generateOne(fontBytes, length, charCode, fontSize, pixelRange) ==
    LET \* 6. generate bitmap, 7. pack results
        Pack(loaded, shape, box, scale, frameL, frameB, width, height) ==
            [success     |-> TRUE,
             channels    |-> 3,
             width       |-> width,
             height      |-> height,
             advance     |-> RMul(loaded.advance, scale),
             planeBounds |-> <<RMul(box.l, scale), RMul(box.b, scale),
                               RMul(box.r, scale), RMul(box.t, scale)>>,
             atlasBounds |-> <<R(0), R(0), R(width), R(height)>>,
             pixels      |-> [len |-> width * height * 3,
                              src |-> Raster(shape, width, height, scale,
                                             RDiv(RNeg(frameL), scale), RDiv(RNeg(frameB), scale),
                                             pixelRange, 3)]]
        \* 5. dimensions: the frame around the scaled bounds
        Frame(loaded, shape, box, scale, range) ==
            LET frameL == RSub(RMul(box.l, scale), range)
                frameB == RSub(RMul(box.b, scale), range)
                frameR == RAdd(RMul(box.r, scale), range)
                frameT == RAdd(RMul(box.t, scale), range)
            IN  Pack(loaded, shape, box, scale, frameL, frameB,
                     Ceil(RSub(frameR, frameL)), Ceil(RSub(frameT, frameB)))
        \* 5. bounds: empty bounds are replaced by the unit box
        Bounds(font, loaded, shape, bnd) ==
            Frame(loaded, shape,
                  IF RGeq(bnd.l, bnd.r) \/ RGeq(bnd.b, bnd.t) THEN UnitBox ELSE bnd,
                  RDiv(fontSize, getFontMetrics(font).emSize),
                  RDiv(pixelRange, R(2)))
        \* 4. edge coloring
        Glyph(font, loaded) ==
            IF ~loaded.ok THEN FailedResult(3)
            ELSE Bounds(font, loaded, edgeColoringSimple(normalize(loaded.shape), 3),
                        bound(edgeColoringSimple(normalize(loaded.shape), 3), StartBox))
        \* 2. load font, 3. load shape
        Font(ft, font) ==
            IF ~font.ok THEN FailedResult(3)
            ELSE Glyph(font, loadGlyph(font, charCode))
        \* 1. initialize FreeType
        Freetype(ft) ==
            IF ft = Null THEN FailedResult(3)
            ELSE Font(ft, loadFontData(ft, fontBytes, length))
    IN  Freetype(initializeFreetype)

\* msdf_core::generateOneMTSDF (4 channels)
generateOneMTSDF(fontBytes, length, charCode, fontSize, pixelRange) ==
    LET \* 6. generate bitmap, 7. pack results
        Pack(loaded, shape, box, scale, frameL, frameB, width, height) ==
            [success     |-> TRUE,
             channels    |-> 4,
             width       |-> width,
             height      |-> height,
             advance     |-> RMul(loaded.advance, scale),
             planeBounds |-> <<RMul(box.l, scale), RMul(box.b, scale),
                               RMul(box.r, scale), RMul(box.t, scale)>>,
             atlasBounds |-> <<R(0), R(0), R(width), R(height)>>,
             pixels      |-> [len |-> width * height * 4,
                              src |-> Raster(shape, width, height, scale,
                                             RDiv(RNeg(frameL), scale), RDiv(RNeg(frameB), scale),
                                             pixelRange, 4)]]
        \* 5. dimensions: the frame around the scaled bounds
        Frame(loaded, shape, box, scale, range) ==
            LET frameL == RSub(RMul(box.l, scale), range)
                frameB == RSub(RMul(box.b, scale), range)
                frameR == RAdd(RMul(box.r, scale), range)
                frameT == RAdd(RMul(box.t, scale), range)
            IN  Pack(loaded, shape, box, scale, frameL, frameB,
                     Ceil(RSub(frameR, frameL)), Ceil(RSub(frameT, frameB)))
        \* 5. bounds: empty bounds are replaced by the unit box
        Bounds(font, loaded, shape, bnd) ==
            Frame(loaded, shape,
                  IF RGeq(bnd.l, bnd.r) \/ RGeq(bnd.b, bnd.t) THEN UnitBox ELSE bnd,
                  RDiv(fontSize, getFontMetrics(font).emSize),
                  RDiv(pixelRange, R(2)))
        \* 4. edge coloring
        Glyph(font, loaded) ==
            IF ~loaded.ok THEN FailedResult(4)
            ELSE Bounds(font, loaded, edgeColoringSimple(normalize(loaded.shape), 3),
                        bound(edgeColoringSimple(normalize(loaded.shape), 3), StartBox))
        \* 2. load font, 3. load shape
        Font(ft, font) ==
            IF ~font.ok THEN FailedResult(4)
            ELSE Glyph(font, loadGlyph(font, charCode))
        \* 1. initialize FreeType
        Freetype(ft) ==
            IF ft = Null THEN FailedResult(4)
            ELSE Font(ft, loadFontData(ft, fontBytes, length))
    IN  Freetype(initializeFreetype)

\* generateOneVar with one step changed: failing when an axis could not be
\* set (strict), colouring the edges of the shape as loaded (normalized =
\* FALSE), or loading the outline before the axes are applied (axesLate)
generateOneVar_changed(fontBytes, length, charCode, fontSize, pixelRange, axes, numAxes, strict, normalized, axesLate) ==
    LET \* 6. generate bitmap, 7. pack results
        Pack(loaded, shape, box, scale, frameL, frameB, width, height) ==
            [success     |-> TRUE,
             channels    |-> 3,
             width       |-> width,
             height      |-> height,
             advance     |-> RMul(loaded.advance, scale),
             planeBounds |-> <<RMul(box.l, scale), RMul(box.b, scale),
                               RMul(box.r, scale), RMul(box.t, scale)>>,
             atlasBounds |-> <<R(0), R(0), R(width), R(height)>>,
             pixels      |-> [len |-> width * height * 3,
                              src |-> Raster(shape, width, height, scale,
                                             RDiv(RNeg(frameL), scale), RDiv(RNeg(frameB), scale),
                                             pixelRange, 3)]]
        \* 5. dimensions: the frame around the scaled bounds
        Frame(loaded, shape, box, scale, range) ==
            LET frameL == RSub(RMul(box.l, scale), range)
                frameB == RSub(RMul(box.b, scale), range)
                frameR == RAdd(RMul(box.r, scale), range)
                frameT == RAdd(RMul(box.t, scale), range)
            IN  Pack(loaded, shape, box, scale, frameL, frameB,
                     Ceil(RSub(frameR, frameL)), Ceil(RSub(frameT, frameB)))
        \* 5. bounds: empty bounds are replaced by the unit box
        Bounds(font, loaded, shape, bnd) ==
            Frame(loaded, shape,
                  IF RGeq(bnd.l, bnd.r) \/ RGeq(bnd.b, bnd.t) THEN UnitBox ELSE bnd,
                  RDiv(fontSize, getFontMetrics(font).emSize),
                  RDiv(pixelRange, R(2)))
        \* 4. edge coloring
        Glyph(font, loaded) ==
            IF ~loaded.ok THEN FailedResult(3)
            ELSE Bounds(font, loaded, edgeColoringSimple(IF normalized THEN normalize(loaded.shape) ELSE loaded.shape, 3),
                        bound(edgeColoringSimple(IF normalized THEN normalize(loaded.shape) ELSE loaded.shape, 3), StartBox))
        \* 2b. apply variation axes, 3. load shape
        Axes(font0, font) ==
            Glyph(font, loadGlyph(IF axesLate THEN font0 ELSE font, charCode))
        \* 2. load font
        Font(ft, font) ==
            IF ~font.ok THEN FailedResult(3)
            ELSE IF /\ strict
                    /\ numAxes > 0
                    /\ applyVariationAxes(ft, font, SubSeq(axes, 1, numAxes)).successCount < numAxes
            THEN FailedResult(3)
            ELSE Axes(font,
                      IF numAxes > 0
                      THEN applyVariationAxes(ft, font, SubSeq(axes, 1, numAxes)).font
                      ELSE font)
        \* 1. initialize FreeType
        Freetype(ft) ==
            IF ft = Null THEN FailedResult(3)
            ELSE Font(ft, loadFontData(ft, fontBytes, length))
    IN  Freetype(initializeFreetype)

\* generateOneVar that fails when an axis of the set could not be applied
generateOneVar_strictAxes(fontBytes, length, charCode, fontSize, pixelRange, axes, numAxes) ==
    generateOneVar_changed(fontBytes, length, charCode, fontSize, pixelRange, axes, numAxes,
                           TRUE, TRUE, FALSE)

\* generateOneVar without shape.normalize()
generateOneVar_noNormalize(fontBytes, length, charCode, fontSize, pixelRange, axes, numAxes) ==
    generateOneVar_changed(fontBytes, length, charCode, fontSize, pixelRange, axes, numAxes,
                           FALSE, FALSE, FALSE)

\* generateOneVar that loads the outline before it applies the axes
generateOneVar_axesAfterGlyph(fontBytes, length, charCode, fontSize, pixelRange, axes, numAxes) ==
    generateOneVar_changed(fontBytes, length, charCode, fontSize, pixelRange, axes, numAxes,
                           FALSE, TRUE, TRUE)

\* msdf_core::generateOneVar (3 channels, variation axes applied first)
generateOneVar(fontBytes, length, charCode, fontSize, pixelRange, axes, numAxes) ==
    LET \* 6. generate bitmap, 7. pack results
        Pack(loaded, shape, box, scale, frameL, frameB, width, height) ==
            [success     |-> TRUE,
             channels    |-> 3,
             width       |-> width,
             height      |-> height,
             advance     |-> RMul(loaded.advance, scale),
             planeBounds |-> <<RMul(box.l, scale), RMul(box.b, scale),
                               RMul(box.r, scale), RMul(box.t, scale)>>,
             atlasBounds |-> <<R(0), R(0), R(width), R(height)>>,
             pixels      |-> [len |-> width * height * 3,
                              src |-> Raster(shape, width, height, scale,
                                             RDiv(RNeg(frameL), scale), RDiv(RNeg(frameB), scale),
                                             pixelRange, 3)]]
        \* 5. dimensions: the frame around the scaled bounds
        Frame(loaded, shape, box, scale, range) ==
            LET frameL == RSub(RMul(box.l, scale), range)
                frameB == RSub(RMul(box.b, scale), range)
                frameR == RAdd(RMul(box.r, scale), range)
                frameT == RAdd(RMul(box.t, scale), range)
            IN  Pack(loaded, shape, box, scale, frameL, frameB,
                     Ceil(RSub(frameR, frameL)), Ceil(RSub(frameT, frameB)))
        \* 5. bounds: empty bounds are replaced by the unit box
        Bounds(font, loaded, shape, bnd) ==
            Frame(loaded, shape,
                  IF RGeq(bnd.l, bnd.r) \/ RGeq(bnd.b, bnd.t) THEN UnitBox ELSE bnd,
                  RDiv(fontSize, getFontMetrics(font).emSize),
                  RDiv(pixelRange, R(2)))
        \* 4. edge coloring
        Glyph(font, loaded) ==
            IF ~loaded.ok THEN FailedResult(3)
            ELSE Bounds(font, loaded, edgeColoringSimple(normalize(loaded.shape), 3),
                        bound(edgeColoringSimple(normalize(loaded.shape), 3), StartBox))
        \* 2b. apply variation axes, 3. load shape
        Axes(font) == Glyph(font, loadGlyph(font, charCode))
        \* 2. load font
        Font(ft, font) ==
            IF ~font.ok THEN FailedResult(3)
            ELSE Axes(IF numAxes > 0
                      THEN applyVariationAxes(ft, font, SubSeq(axes, 1, numAxes)).font
                      ELSE font)
        \* 1. initialize FreeType
        Freetype(ft) ==
            IF ft = Null THEN FailedResult(3)
            ELSE Font(ft, loadFontData(ft, fontBytes, length))
    IN  Freetype(initializeFreetype)

\* msdf_core::generateOneMTSDFVar (4 channels, variation axes applied first)
generateOneMTSDFVar(fontBytes, length, charCode, fontSize, pixelRange, axes, numAxes) ==
    LET \* 6. generate bitmap, 7. pack results
        Pack(loaded, shape, box, scale, frameL, frameB, width, height) ==
            [success     |-> TRUE,
             channels    |-> 4,
             width       |-> width,
             height      |-> height,
             advance     |-> RMul(loaded.advance, scale),
             planeBounds |-> <<RMul(box.l, scale), RMul(box.b, scale),
                               RMul(box.r, scale), RMul(box.t, scale)>>,
             atlasBounds |-> <<R(0), R(0), R(width), R(height)>>,
             pixels      |-> [len |-> width * height * 4,
                              src |-> Raster(shape, width, height, scale,
                                             RDiv(RNeg(frameL), scale), RDiv(RNeg(frameB), scale),
                                             pixelRange, 4)]]
        \* 5. dimensions: the frame around the scaled bounds
        Frame(loaded, shape, box, scale, range) ==
            LET frameL == RSub(RMul(box.l, scale), range)
                frameB == RSub(RMul(box.b, scale), range)
                frameR == RAdd(RMul(box.r, scale), range)
                frameT == RAdd(RMul(box.t, scale), range)
            IN  Pack(loaded, shape, box, scale, frameL, frameB,
                     Ceil(RSub(frameR, frameL)), Ceil(RSub(frameT, frameB)))
        \* 5. bounds: empty bounds are replaced by the unit box
        Bounds(font, loaded, shape, bnd) ==
            Frame(loaded, shape,
                  IF RGeq(bnd.l, bnd.r) \/ RGeq(bnd.b, bnd.t) THEN UnitBox ELSE bnd,
                  RDiv(fontSize, getFontMetrics(font).emSize),
                  RDiv(pixelRange, R(2)))
        \* 4. edge coloring
        Glyph(font, loaded) ==
            IF ~loaded.ok THEN FailedResult(4)
            ELSE Bounds(font, loaded, edgeColoringSimple(normalize(loaded.shape), 3),
                        bound(edgeColoringSimple(normalize(loaded.shape), 3), StartBox))
        \* 2b. apply variation axes, 3. load shape
        Axes(font) == Glyph(font, loadGlyph(font, charCode))
        \* 2. load font
        Font(ft, font) ==
            IF ~font.ok THEN FailedResult(4)
            ELSE Axes(IF numAxes > 0
                      THEN applyVariationAxes(ft, font, SubSeq(axes, 1, numAxes)).font
                      ELSE font)
        \* 1. initialize FreeType
        Freetype(ft) ==
            IF ft = Null THEN FailedResult(4)
            ELSE Font(ft, loadFontData(ft, fontBytes, length))
    IN  Freetype(initializeFreetype)

\* a FreeType call that returns a handle, and one that gives a handle back
Obtains(call, handle) == [call |-> call, obtains |-> handle, releases |-> Null]

Releases(call, handle) == [call |-> call, obtains |-> Null, releases |-> handle]

\* the calls of hasGlyph that obtain or release a handle, in order, on the
\* path these arguments take
hasGlyph_handles(fontBytes, length, charCode) ==
    LET ft == initializeFreetype
    IN  IF ft = Null THEN << Obtains("initializeFreetype", Null) >>
        ELSE IF ~loadFontData(ft, fontBytes, length).ok
        THEN << Obtains("initializeFreetype", ft), Obtains("loadFontData", Null),
                Releases("deinitializeFreetype", ft) >>
        ELSE << Obtains("initializeFreetype", ft), Obtains("loadFontData", "font"),
                Releases("destroyFont", "font"), Releases("deinitializeFreetype", ft) >>

\* generateOne returning on a glyph that does not load with the font still open
generateOne_fontLeftOpen(fontBytes, length, charCode) ==
    LET ft == initializeFreetype
    IN  IF ft = Null THEN << Obtains("initializeFreetype", Null) >>
        ELSE IF ~loadFontData(ft, fontBytes, length).ok
        THEN << Obtains("initializeFreetype", ft), Obtains("loadFontData", Null),
                Releases("deinitializeFreetype", ft) >>
        ELSE IF ~loadGlyph(loadFontData(ft, fontBytes, length), charCode).ok
        THEN << Obtains("initializeFreetype", ft), Obtains("loadFontData", "font"),
                Releases("deinitializeFreetype", ft) >>
        ELSE << Obtains("initializeFreetype", ft), Obtains("loadFontData", "font"),
                Releases("destroyFont", "font"), Releases("deinitializeFreetype", ft) >>

\* ... of generateOne: the glyph that does not load and the glyph rendered
\* both end in destroyFont and deinitializeFreetype
generateOne_handles(fontBytes, length, charCode) ==
    LET ft == initializeFreetype
    IN  IF ft = Null THEN << Obtains("initializeFreetype", Null) >>
        ELSE IF ~loadFontData(ft, fontBytes, length).ok
        THEN << Obtains("initializeFreetype", ft), Obtains("loadFontData", Null),
                Releases("deinitializeFreetype", ft) >>
        ELSE IF ~loadGlyph(loadFontData(ft, fontBytes, length), charCode).ok
        THEN << Obtains("initializeFreetype", ft), Obtains("loadFontData", "font"),
                Releases("destroyFont", "font"), Releases("deinitializeFreetype", ft) >>
        ELSE << Obtains("initializeFreetype", ft), Obtains("loadFontData", "font"),
                Releases("destroyFont", "font"), Releases("deinitializeFreetype", ft) >>

\* ... of generateOneMTSDF, which makes the same calls in the same places
generateOneMTSDF_handles(fontBytes, length, charCode) ==
    LET ft == initializeFreetype
    IN  IF ft = Null THEN << Obtains("initializeFreetype", Null) >>
        ELSE IF ~loadFontData(ft, fontBytes, length).ok
        THEN << Obtains("initializeFreetype", ft), Obtains("loadFontData", Null),
                Releases("deinitializeFreetype", ft) >>
        ELSE IF ~loadGlyph(loadFontData(ft, fontBytes, length), charCode).ok
        THEN << Obtains("initializeFreetype", ft), Obtains("loadFontData", "font"),
                Releases("destroyFont", "font"), Releases("deinitializeFreetype", ft) >>
        ELSE << Obtains("initializeFreetype", ft), Obtains("loadFontData", "font"),
                Releases("destroyFont", "font"), Releases("deinitializeFreetype", ft) >>

\* ... of generateOneVar: the glyph is loaded from the font as
\* applyVariationAxes leaves it, which obtains and releases nothing
generateOneVar_handles(fontBytes, length, charCode, axes, numAxes) ==
    LET ft == initializeFreetype
        Varied(font) == IF numAxes > 0 THEN applyVariationAxes(ft, font, axes).font ELSE font
    IN  IF ft = Null THEN << Obtains("initializeFreetype", Null) >>
        ELSE IF ~loadFontData(ft, fontBytes, length).ok
        THEN << Obtains("initializeFreetype", ft), Obtains("loadFontData", Null),
                Releases("deinitializeFreetype", ft) >>
        ELSE IF ~loadGlyph(Varied(loadFontData(ft, fontBytes, length)), charCode).ok
        THEN << Obtains("initializeFreetype", ft), Obtains("loadFontData", "font"),
                Releases("destroyFont", "font"), Releases("deinitializeFreetype", ft) >>
        ELSE << Obtains("initializeFreetype", ft), Obtains("loadFontData", "font"),
                Releases("destroyFont", "font"), Releases("deinitializeFreetype", ft) >>

\* ... of generateOneMTSDFVar, which makes the same calls in the same places
generateOneMTSDFVar_handles(fontBytes, length, charCode, axes, numAxes) ==
    LET ft == initializeFreetype
        Varied(font) == IF numAxes > 0 THEN applyVariationAxes(ft, font, axes).font ELSE font
    IN  IF ft = Null THEN << Obtains("initializeFreetype", Null) >>
        ELSE IF ~loadFontData(ft, fontBytes, length).ok
        THEN << Obtains("initializeFreetype", ft), Obtains("loadFontData", Null),
                Releases("deinitializeFreetype", ft) >>
        ELSE IF ~loadGlyph(Varied(loadFontData(ft, fontBytes, length)), charCode).ok
        THEN << Obtains("initializeFreetype", ft), Obtains("loadFontData", "font"),
                Releases("destroyFont", "font"), Releases("deinitializeFreetype", ft) >>
        ELSE << Obtains("initializeFreetype", ft), Obtains("loadFontData", "font"),
                Releases("destroyFont", "font"), Releases("deinitializeFreetype", ft) >>

----------------------------------------------------------------------------
(* wasm_binding.cpp *)

\* g_pixelBuffer is kept as its size in floats, the raster last copied to its
\* start and the number of floats of that raster; the floats behind them are
\* whatever earlier calls left there.
EmptyPixelBuffer == [size |-> 0, len |-> 0, data |-> << >>]

\* a resize to exactly the size needed, shrinking the buffer when it is larger
PixelResize_exact(pixelBuffer, neededFloats) ==
    [pixelBuffer EXCEPT !.size = neededFloats]

\* if (g_pixelBuffer.size() < neededFloats) g_pixelBuffer.resize(neededFloats)
PixelResize(pixelBuffer, neededFloats) ==
    IF pixelBuffer.size < neededFloats
    THEN [pixelBuffer EXCEPT !.size = neededFloats]
    ELSE pixelBuffer

\* std::memcpy(g_pixelBuffer.data(), res.pixels.data(), neededBytes)
PixelMemcpy(pixelBuffer, pixels) ==
    IF pixels.len = 0 THEN pixelBuffer
    ELSE [pixelBuffer EXCEPT !.len = pixels.len, !.data = <<pixels.src>>]

\* prepare_font_buffer: grows the buffer (zero filled) when it is too small
prepare_font_buffer(fontBuffer, size) ==
    IF Len(fontBuffer) < size
    THEN fontBuffer \o [i \in 1..(size - Len(fontBuffer)) |-> 0]
    ELSE fontBuffer

\* generate_glyph that copies the pixels only when the buffer had to grow
generate_glyph_copyOnGrow(fontBuffer, pixelBuffer, fontLen_, charCode, fontSize, pixelRange, outMetrics) ==
    LET Write(res) ==
            IF ~res.success
            THEN [res |-> res, pixelBuffer |-> pixelBuffer,
                  outMetrics |-> [outMetrics EXCEPT ![1] = R(0)],
                  ret |-> Null]
            ELSE [res |-> res,
                  pixelBuffer |-> IF pixelBuffer.size < res.pixels.len
                                  THEN PixelMemcpy(PixelResize(pixelBuffer, res.pixels.len), res.pixels)
                                  ELSE pixelBuffer,
                  outMetrics |-> <<R(1), R(res.width), R(res.height), res.advance,
                                   res.planeBounds[1], res.planeBounds[2],
                                   res.planeBounds[3], res.planeBounds[4],
                                   res.atlasBounds[1], res.atlasBounds[2]>>,
                  ret |-> "g_pixelBuffer"]
    IN  Write(generateOne(fontBuffer, fontLen_, charCode, fontSize, pixelRange))

\* generate_glyph that clears the whole metrics block and the pixel buffer
\* when the core fails
generate_glyph_clearOnFailure(fontBuffer, pixelBuffer, fontLen_, charCode, fontSize, pixelRange, outMetrics) ==
    LET Write(res) ==
            IF ~res.success
            THEN [res |-> res, pixelBuffer |-> [pixelBuffer EXCEPT !.len = 0, !.data = << >>],
                  outMetrics |-> [i \in 1..10 |-> R(0)],
                  ret |-> Null]
            ELSE [res |-> res,
                  pixelBuffer |-> PixelMemcpy(PixelResize(pixelBuffer, res.pixels.len), res.pixels),
                  outMetrics |-> <<R(1), R(res.width), R(res.height), res.advance,
                                   res.planeBounds[1], res.planeBounds[2],
                                   res.planeBounds[3], res.planeBounds[4],
                                   res.atlasBounds[1], res.atlasBounds[2]>>,
                  ret |-> "g_pixelBuffer"]
    IN  Write(generateOne(fontBuffer, fontLen_, charCode, fontSize, pixelRange))

\* generate_glyph that hands the axes buffer to the core as generate_glyph_var does
generate_glyph_usesAxes(fontBuffer, pixelBuffer, fontLen_, charCode, fontSize, pixelRange, outMetrics) ==
    LET Write(res) ==
            IF ~res.success
            THEN [res |-> res, pixelBuffer |-> pixelBuffer,
                  outMetrics |-> [outMetrics EXCEPT ![1] = R(0)],
                  ret |-> Null]
            ELSE [res |-> res,
                  pixelBuffer |-> PixelMemcpy(PixelResize(pixelBuffer, res.pixels.len), res.pixels),
                  outMetrics |-> <<R(1), R(res.width), R(res.height), res.advance,
                                   res.planeBounds[1], res.planeBounds[2],
                                   res.planeBounds[3], res.planeBounds[4],
                                   res.atlasBounds[1], res.atlasBounds[2]>>,
                  ret |-> "g_pixelBuffer"]
    IN  Write(generateOneVar(fontBuffer, fontLen_, charCode, fontSize, pixelRange,
                             g_axesBuffer, Len(g_axesBuffer)))

\* generate_glyph: the pixel buffer and metrics block after the call, and the pointer returned
generate_glyph(fontBuffer, pixelBuffer, fontLen_, charCode, fontSize, pixelRange, outMetrics) ==
    LET Write(res) ==
            IF ~res.success
            THEN [res |-> res, pixelBuffer |-> pixelBuffer,
                  outMetrics |-> [outMetrics EXCEPT ![1] = R(0)],
                  ret |-> Null]
            ELSE [res |-> res,
                  pixelBuffer |-> PixelMemcpy(PixelResize(pixelBuffer, res.pixels.len), res.pixels),
                  outMetrics |-> <<R(1), R(res.width), R(res.height), res.advance,
                                   res.planeBounds[1], res.planeBounds[2],
                                   res.planeBounds[3], res.planeBounds[4],
                                   res.atlasBounds[1], res.atlasBounds[2]>>,
                  ret |-> "g_pixelBuffer"]
    IN  Write(generateOne(fontBuffer, fontLen_, charCode, fontSize, pixelRange))

\* generate_mtsdf_glyph: the pixel buffer and metrics block after the call, and the pointer returned
generate_mtsdf_glyph(fontBuffer, pixelBuffer, fontLen_, charCode, fontSize, pixelRange, outMetrics) ==
    LET Write(res) ==
            IF ~res.success
            THEN [res |-> res, pixelBuffer |-> pixelBuffer,
                  outMetrics |-> [outMetrics EXCEPT ![1] = R(0)],
                  ret |-> Null]
            ELSE [res |-> res,
                  pixelBuffer |-> PixelMemcpy(PixelResize(pixelBuffer, res.pixels.len), res.pixels),
                  outMetrics |-> <<R(1), R(res.width), R(res.height), res.advance,
                                   res.planeBounds[1], res.planeBounds[2],
                                   res.planeBounds[3], res.planeBounds[4],
                                   res.atlasBounds[1], res.atlasBounds[2]>>,
                  ret |-> "g_pixelBuffer"]
    IN  Write(generateOneMTSDF(fontBuffer, fontLen_, charCode, fontSize, pixelRange))

\* clear_variation_axes that leaves the axes of earlier calls in the buffer
clear_variation_axes_keep(axesBuffer) == axesBuffer

\* clear_variation_axes
clear_variation_axes(axesBuffer) == << >>

\* add_variation_axis: strncpy of at most 4 characters of the tag
add_variation_axis(axesBuffer, tag, value) ==
    Append(axesBuffer, [tag |-> SubSeq(tag, 1, Min(4, Len(tag))), value |-> value])

\* generate_glyph_var: the pixel buffer and metrics block after the call, and the pointer returned
generate_glyph_var(fontBuffer, pixelBuffer, axesBuffer, fontLen_, charCode, fontSize, pixelRange, outMetrics) ==
    LET Write(res) ==
            IF ~res.success
            THEN [res |-> res, pixelBuffer |-> pixelBuffer,
                  outMetrics |-> [outMetrics EXCEPT ![1] = R(0)],
                  ret |-> Null]
            ELSE [res |-> res,
                  pixelBuffer |-> PixelMemcpy(PixelResize(pixelBuffer, res.pixels.len), res.pixels),
                  outMetrics |-> <<R(1), R(res.width), R(res.height), res.advance,
                                   res.planeBounds[1], res.planeBounds[2],
                                   res.planeBounds[3], res.planeBounds[4],
                                   res.atlasBounds[1], res.atlasBounds[2]>>,
                  ret |-> "g_pixelBuffer"]
    IN  Write(generateOneVar(fontBuffer, fontLen_, charCode, fontSize, pixelRange,
                             axesBuffer, Len(axesBuffer)))

\* generate_mtsdf_glyph_var: the pixel buffer and metrics block after the call, and the pointer returned
generate_mtsdf_glyph_var(fontBuffer, pixelBuffer, axesBuffer, fontLen_, charCode, fontSize, pixelRange, outMetrics) ==
    LET Write(res) ==
            IF ~res.success
            THEN [res |-> res, pixelBuffer |-> pixelBuffer,
                  outMetrics |-> [outMetrics EXCEPT ![1] = R(0)],
                  ret |-> Null]
            ELSE [res |-> res,
                  pixelBuffer |-> PixelMemcpy(PixelResize(pixelBuffer, res.pixels.len), res.pixels),
                  outMetrics |-> <<R(1), R(res.width), R(res.height), res.advance,
                                   res.planeBounds[1], res.planeBounds[2],
                                   res.planeBounds[3], res.planeBounds[4],
                                   res.atlasBounds[1], res.atlasBounds[2]>>,
                  ret |-> "g_pixelBuffer"]
    IN  Write(generateOneMTSDFVar(fontBuffer, fontLen_, charCode, fontSize, pixelRange,
                                  axesBuffer, Len(axesBuffer)))

\* has_glyph
has_glyph(fontBuffer, fontLen_, charCode) ==
    IF core_hasGlyph(fontBuffer, fontLen_, charCode) THEN 1 ELSE 0

\* free_buffers: all three vectors are swapped with empty ones
free_buffers ==
    [g_fontBuffer |-> << >>, g_pixelBuffer |-> EmptyPixelBuffer, g_axesBuffer |-> << >>]

----------------------------------------------------------------------------
(* msdf-generator.ts: class MSDFGenerator *)

\* the wrapper rejects bitmaps wider or taller than this
MaxDim == 4096

\* an uninitialised float of freshly allocated heap memory
Garbage == [n |-> 0, d |-> 0]

\* this.module._malloc(40): ten floats, not initialised
Malloc40 == [i \in 1..10 |-> Garbage]

\* this.module.HEAPU8.set(fontBytes, ptr)
HeapSet(buffer, bytes) ==
    [i \in 1..Len(buffer) |-> IF i <= Len(bytes) THEN bytes[i] ELSE buffer[i]]

\* a copy of everything the pixel buffer holds instead of pixelCount floats
Subarray_wholeBuffer(pixelBuffer, pixelCount) ==
    [length |-> pixelBuffer.size, data |-> pixelBuffer.data, valid |-> pixelBuffer.len,
     buffer |-> "own"]

\* the subarray itself, a view of the WASM heap, instead of a copy of it
Subarray_view(pixelBuffer, pixelCount) ==
    [length |-> pixelCount, data |-> pixelBuffer.data, valid |-> Min(pixelCount, pixelBuffer.len),
     buffer |-> "HEAPF32"]

\* this.module.HEAPF32.subarray(pixelsOffset, pixelsOffset + pixelCount) copied
\* into a new Float32Array(pixelCount): its length, the raster its leading
\* floats come from and how many of them do, and the ArrayBuffer behind it
\* (its own)
Subarray(pixelBuffer, pixelCount) ==
    [length |-> pixelCount, data |-> pixelBuffer.data, valid |-> Min(pixelCount, pixelBuffer.len),
     buffer |-> "own"]

\* the floats a Float32Array holds now: those of the WASM heap at the start of
\* the pixel buffer when it is a view of the heap, its own otherwise
Contents(pixels) ==
    IF pixels.buffer = "HEAPF32"
    THEN [data |-> g_pixelBuffer.data, valid |-> Min(pixels.length, g_pixelBuffer.len)]
    ELSE [data |-> pixels.data, valid |-> pixels.valid]

\* what a call that threw leaves to observe
Thrown(op, args, message) ==
    [op |-> op, args |-> args, threw |-> message, returned |-> "none", glyph |-> << >>,
     core |-> << >>, ptr |-> Null, wasmCalls |-> << >>, metricsRead |-> {},
     outMetrics |-> << >>, pixelsRead |-> 0]

\* what a generation call that returned leaves to observe: the value returned,
\* the core result and pointer the binding produced, the exports called, the
\* metrics slots read and the number of floats read from the pixel buffer
Returned(op, args, returned, glyph, call, calls, read, pixelsRead) ==
    [op |-> op, args |-> args, threw |-> "", returned |-> returned, glyph |-> glyph,
     core |-> <<call.res>>, ptr |-> call.ret, wasmCalls |-> calls, metricsRead |-> read,
     outMetrics |-> call.outMetrics, pixelsRead |-> pixelsRead]

\* what a call other than generation leaves to observe
Plain(op, args, threw, returned, calls) ==
    [op |-> op, args |-> args, threw |-> threw, returned |-> returned, glyph |-> << >>,
     core |-> << >>, ptr |-> Null, wasmCalls |-> calls, metricsRead |-> {},
     outMetrics |-> << >>, pixelsRead |-> 0]

\* the first generation call since the font or the axis set last changed,
\* whether another generation call has been made after it, and whether the call
\* made just before it was clearVariationAxes
Remember(seen, ret) ==
    IF ~env.track THEN seen
    ELSE IF seen = << >>
    THEN << [call |-> ret, again |-> FALSE, cleared |-> last.op = "clearVariationAxes"] >>
    ELSE << [seen[1] EXCEPT !.again = TRUE] >>

\* the calls that change what a generation call renders
Changers == {"loadFont", "setVariationAxes", "clearVariationAxes", "dispose"}

\* what is remembered of the first generation call once call op has been made:
\* nothing, when this caller starts afresh on op
Forget(op) == IF op \in env.resets THEN << >> ELSE first

\* loadFont that takes the size of the font buffer for the length of the font
loadFont_bufferLength(fontBytes) ==
    /\ fontLen' = Len(prepare_font_buffer(g_fontBuffer, Len(fontBytes)))
    /\ g_fontBuffer' = HeapSet(prepare_font_buffer(g_fontBuffer, Len(fontBytes)), fontBytes)
    /\ fontLoaded' = TRUE
    /\ last' = Plain("loadFont", <<fontBytes>>, "", "void", <<"_prepare_font_buffer">>)
    /\ first' = Forget("loadFont")
    /\ sinceDispose' = TRUE
    /\ UNCHANGED <<g_pixelBuffer, g_axesBuffer, disposed, env>>

\* MSDFGenerator.loadFont
loadFont(fontBytes) ==
    /\ fontLen' = Len(fontBytes)
    /\ g_fontBuffer' = HeapSet(prepare_font_buffer(g_fontBuffer, Len(fontBytes)), fontBytes)
    /\ fontLoaded' = TRUE
    /\ last' = Plain("loadFont", <<fontBytes>>, "", "void", <<"_prepare_font_buffer">>)
    /\ first' = Forget("loadFont")
    /\ sinceDispose' = TRUE
    /\ UNCHANGED <<g_pixelBuffer, g_axesBuffer, disposed, env>>

\* hasGlyph that probes by rendering the glyph into the pixel buffer
hasGlyph_rendering(charCode) ==
    /\ IF ~fontLoaded
       THEN last' = Thrown("hasGlyph", <<charCode>>, "Font not loaded")
       ELSE last' = Plain("hasGlyph", <<charCode>>, "",
                          IF has_glyph(g_fontBuffer, fontLen, charCode) # 0 THEN "true" ELSE "false",
                          <<"_has_glyph">>)
    /\ g_pixelBuffer' = IF ~fontLoaded THEN g_pixelBuffer
                        ELSE generate_glyph(g_fontBuffer, g_pixelBuffer, fontLen, charCode,
                                            R(1), R(2), [i \in 1..10 |-> R(0)]).pixelBuffer
    /\ UNCHANGED <<g_fontBuffer, g_axesBuffer, fontLoaded, fontLen, first, disposed, sinceDispose, env>>

\* MSDFGenerator.hasGlyph
hasGlyph(charCode) ==
    /\ IF ~fontLoaded
       THEN last' = Thrown("hasGlyph", <<charCode>>, "Font not loaded")
       ELSE last' = Plain("hasGlyph", <<charCode>>, "",
                          IF has_glyph(g_fontBuffer, fontLen, charCode) # 0 THEN "true" ELSE "false",
                          <<"_has_glyph">>)
    /\ UNCHANGED <<g_fontBuffer, g_pixelBuffer, g_axesBuffer, fontLoaded, fontLen, first, disposed, sinceDispose, env>>

\* generate without the upper bound of the dimension check
generate_noUpperBound(charCode, fontSize, pixelRange) ==
    IF ~fontLoaded
    THEN /\ last' = Thrown("generate", <<charCode, fontSize, pixelRange>>, "Font not loaded")
         /\ UNCHANGED <<g_fontBuffer, g_pixelBuffer, g_axesBuffer, fontLoaded, fontLen, first, disposed, sinceDispose, env>>
    ELSE \E metricsPtr \in {Malloc40} :
         \E call \in {generate_glyph(g_fontBuffer, g_pixelBuffer, fontLen,
                            charCode, fontSize, pixelRange, metricsPtr)} :
         LET HEAPF32 == call.outMetrics
             success == HEAPF32[1]
             width   == HEAPF32[2]
             height  == HEAPF32[3]
             advance == HEAPF32[4]
             l       == HEAPF32[5]
             b       == HEAPF32[6]
             r       == HEAPF32[7]
             t       == HEAPF32[8]
             pixelCount == RMul(RMul(width, height), R(3)).n
             pixels  == Subarray(call.pixelBuffer, pixelCount)
             calls   == <<"_malloc", "_generate_glyph", "_free">>
             ret     == IF success = R(0)
                        THEN Returned("generate", <<charCode, fontSize, pixelRange>>, "null", << >>,
                                      call, calls, {0}, 0)
                        ELSE IF RLeq(width, R(0)) \/ RLeq(height, R(0))
                        THEN Returned("generate", <<charCode, fontSize, pixelRange>>, "null", << >>,
                                      call, calls, 0..7, 0)
                        ELSE Returned("generate", <<charCode, fontSize, pixelRange>>, "glyph",
                                      << [metrics |-> [width |-> width, height |-> height,
                                                       advance |-> advance,
                                                       planeBounds |-> [l |-> l, b |-> b, r |-> r, t |-> t],
                                                       atlasBounds |-> [l |-> R(0), b |-> R(0)]],
                                          pixels |-> pixels] >>,
                                      call, calls, 0..7, pixelCount)
         IN  /\ g_pixelBuffer' = call.pixelBuffer
             /\ last' = ret
             /\ first' = Remember(first, ret)
             /\ UNCHANGED <<g_fontBuffer, g_axesBuffer, fontLoaded, fontLen, disposed, sinceDispose, env>>

\* MSDFGenerator.generate
generate(charCode, fontSize, pixelRange) ==
    IF ~fontLoaded
    THEN /\ last' = Thrown("generate", <<charCode, fontSize, pixelRange>>, "Font not loaded")
         /\ UNCHANGED <<g_fontBuffer, g_pixelBuffer, g_axesBuffer, fontLoaded, fontLen, first, disposed, sinceDispose, env>>
    ELSE \E metricsPtr \in {Malloc40} :
         \E call \in {generate_glyph(g_fontBuffer, g_pixelBuffer, fontLen,
                            charCode, fontSize, pixelRange, metricsPtr)} :
         LET HEAPF32 == call.outMetrics
             success == HEAPF32[1]
             width   == HEAPF32[2]
             height  == HEAPF32[3]
             advance == HEAPF32[4]
             l       == HEAPF32[5]
             b       == HEAPF32[6]
             r       == HEAPF32[7]
             t       == HEAPF32[8]
             pixelCount == RMul(RMul(width, height), R(3)).n
             pixels  == Subarray(call.pixelBuffer, pixelCount)
             calls   == <<"_malloc", "_generate_glyph", "_free">>
             ret     == IF success = R(0)
                        THEN Returned("generate", <<charCode, fontSize, pixelRange>>, "null", << >>,
                                      call, calls, {0}, 0)
                        ELSE IF RLeq(width, R(0)) \/ RLeq(height, R(0))
                                \/ ~RLeq(width, R(MaxDim)) \/ ~RLeq(height, R(MaxDim))
                        THEN Returned("generate", <<charCode, fontSize, pixelRange>>, "null", << >>,
                                      call, calls, 0..7, 0)
                        ELSE Returned("generate", <<charCode, fontSize, pixelRange>>, "glyph",
                                      << [metrics |-> [width |-> width, height |-> height,
                                                       advance |-> advance,
                                                       planeBounds |-> [l |-> l, b |-> b, r |-> r, t |-> t],
                                                       atlasBounds |-> [l |-> R(0), b |-> R(0)]],
                                          pixels |-> pixels] >>,
                                      call, calls, 0..7, pixelCount)
         IN  /\ g_pixelBuffer' = call.pixelBuffer
             /\ last' = ret
             /\ first' = Remember(first, ret)
             /\ UNCHANGED <<g_fontBuffer, g_axesBuffer, fontLoaded, fontLen, disposed, sinceDispose, env>>

\* MSDFGenerator.generateMTSDF
generateMTSDF(charCode, fontSize, pixelRange) ==
    IF ~fontLoaded
    THEN /\ last' = Thrown("generateMTSDF", <<charCode, fontSize, pixelRange>>, "Font not loaded")
         /\ UNCHANGED <<g_fontBuffer, g_pixelBuffer, g_axesBuffer, fontLoaded, fontLen, first, disposed, sinceDispose, env>>
    ELSE \E metricsPtr \in {Malloc40} :
         \E call \in {generate_mtsdf_glyph(g_fontBuffer, g_pixelBuffer, fontLen,
                            charCode, fontSize, pixelRange, metricsPtr)} :
         LET HEAPF32 == call.outMetrics
             success == HEAPF32[1]
             width   == HEAPF32[2]
             height  == HEAPF32[3]
             advance == HEAPF32[4]
             l       == HEAPF32[5]
             b       == HEAPF32[6]
             r       == HEAPF32[7]
             t       == HEAPF32[8]
             pixelCount == RMul(RMul(width, height), R(4)).n
             pixels  == Subarray(call.pixelBuffer, pixelCount)
             calls   == <<"_malloc", "_generate_mtsdf_glyph", "_free">>
             ret     == IF success = R(0)
                        THEN Returned("generateMTSDF", <<charCode, fontSize, pixelRange>>, "null", << >>,
                                      call, calls, {0}, 0)
                        ELSE IF RLeq(width, R(0)) \/ RLeq(height, R(0))
                                \/ ~RLeq(width, R(MaxDim)) \/ ~RLeq(height, R(MaxDim))
                        THEN Returned("generateMTSDF", <<charCode, fontSize, pixelRange>>, "null", << >>,
                                      call, calls, 0..7, 0)
                        ELSE Returned("generateMTSDF", <<charCode, fontSize, pixelRange>>, "glyph",
                                      << [metrics |-> [width |-> width, height |-> height,
                                                       advance |-> advance,
                                                       planeBounds |-> [l |-> l, b |-> b, r |-> r, t |-> t],
                                                       atlasBounds |-> [l |-> R(0), b |-> R(0)]],
                                          pixels |-> pixels] >>,
                                      call, calls, 0..7, pixelCount)
         IN  /\ g_pixelBuffer' = call.pixelBuffer
             /\ last' = ret
             /\ first' = Remember(first, ret)
             /\ UNCHANGED <<g_fontBuffer, g_axesBuffer, fontLoaded, fontLen, disposed, sinceDispose, env>>

\* HEAPU8[tagPtr + i] = axis.tag.charCodeAt(i): a Uint8Array element keeps the
\* low byte of the UTF-16 code unit, so U+0177 is stored as 0x77, the letter w
Byte(unit) == IF unit = "U+0177" THEN "w" ELSE unit

\* the loop of setVariationAxes allocating the tag string before it tests the
\* length of the tag
RECURSIVE AddAxes_mallocFirst(_, _, _)
AddAxes_mallocFirst(axesBuffer, axes, calls) ==
    IF axes = << >> THEN [axesBuffer |-> axesBuffer, threw |-> "", calls |-> calls]
    ELSE IF Len(Head(axes).tag) # 4
    THEN [axesBuffer |-> axesBuffer, threw |-> "Axis tag must be 4 characters",
          calls |-> calls \o <<"_malloc">>]
    ELSE AddAxes_mallocFirst(add_variation_axis(axesBuffer, [i \in 1..4 |-> Byte(Head(axes).tag[i])],
                                                Head(axes).value),
                             Tail(axes),
                             calls \o <<"_malloc", "_add_variation_axis", "_free">>)

\* the loop of setVariationAxes: the axes buffer when the loop ends, the
\* message thrown ("" when the loop completes) and the exports called
RECURSIVE AddAxes(_, _, _)
AddAxes(axesBuffer, axes, calls) ==
    IF axes = << >> THEN [axesBuffer |-> axesBuffer, threw |-> "", calls |-> calls]
    ELSE IF Len(Head(axes).tag) # 4
    THEN [axesBuffer |-> axesBuffer, threw |-> "Axis tag must be 4 characters", calls |-> calls]
    ELSE AddAxes(add_variation_axis(axesBuffer, [i \in 1..4 |-> Byte(Head(axes).tag[i])],
                                    Head(axes).value),
                 Tail(axes),
                 calls \o <<"_malloc", "_add_variation_axis", "_free">>)

\* MSDFGenerator.setVariationAxes
setVariationAxes(axes) ==
    LET done == AddAxes(clear_variation_axes(g_axesBuffer), axes, <<"_clear_variation_axes">>)
    IN  /\ g_axesBuffer' = done.axesBuffer
        /\ last' = Plain("setVariationAxes", <<axes>>, done.threw,
                         IF done.threw = "" THEN "void" ELSE "none", done.calls)
        /\ first' = Forget("setVariationAxes")
        /\ UNCHANGED <<g_fontBuffer, g_pixelBuffer, fontLoaded, fontLen, disposed, sinceDispose, env>>

\* MSDFGenerator.clearVariationAxes
clearVariationAxes ==
    /\ g_axesBuffer' = clear_variation_axes(g_axesBuffer)
    /\ last' = Plain("clearVariationAxes", << >>, "", "void", <<"_clear_variation_axes">>)
    /\ first' = Forget("clearVariationAxes")
    /\ UNCHANGED <<g_fontBuffer, g_pixelBuffer, fontLoaded, fontLen, disposed, sinceDispose, env>>

\* MSDFGenerator.generateVar
generateVar(charCode, fontSize, pixelRange) ==
    IF ~fontLoaded
    THEN /\ last' = Thrown("generateVar", <<charCode, fontSize, pixelRange>>, "Font not loaded")
         /\ UNCHANGED <<g_fontBuffer, g_pixelBuffer, g_axesBuffer, fontLoaded, fontLen, first, disposed, sinceDispose, env>>
    ELSE \E metricsPtr \in {Malloc40} :
         \E call \in {generate_glyph_var(g_fontBuffer, g_pixelBuffer, g_axesBuffer, fontLen,
                            charCode, fontSize, pixelRange, metricsPtr)} :
         LET HEAPF32 == call.outMetrics
             success == HEAPF32[1]
             width   == HEAPF32[2]
             height  == HEAPF32[3]
             advance == HEAPF32[4]
             l       == HEAPF32[5]
             b       == HEAPF32[6]
             r       == HEAPF32[7]
             t       == HEAPF32[8]
             pixelCount == RMul(RMul(width, height), R(3)).n
             pixels  == Subarray(call.pixelBuffer, pixelCount)
             calls   == <<"_malloc", "_generate_glyph_var", "_free">>
             ret     == IF success = R(0)
                        THEN Returned("generateVar", <<charCode, fontSize, pixelRange>>, "null", << >>,
                                      call, calls, {0}, 0)
                        ELSE IF RLeq(width, R(0)) \/ RLeq(height, R(0))
                                \/ ~RLeq(width, R(MaxDim)) \/ ~RLeq(height, R(MaxDim))
                        THEN Returned("generateVar", <<charCode, fontSize, pixelRange>>, "null", << >>,
                                      call, calls, 0..7, 0)
                        ELSE Returned("generateVar", <<charCode, fontSize, pixelRange>>, "glyph",
                                      << [metrics |-> [width |-> width, height |-> height,
                                                       advance |-> advance,
                                                       planeBounds |-> [l |-> l, b |-> b, r |-> r, t |-> t],
                                                       atlasBounds |-> [l |-> R(0), b |-> R(0)]],
                                          pixels |-> pixels] >>,
                                      call, calls, 0..7, pixelCount)
         IN  /\ g_pixelBuffer' = call.pixelBuffer
             /\ last' = ret
             /\ first' = Remember(first, ret)
             /\ UNCHANGED <<g_fontBuffer, g_axesBuffer, fontLoaded, fontLen, disposed, sinceDispose, env>>

\* MSDFGenerator.generateMTSDFVar
generateMTSDFVar(charCode, fontSize, pixelRange) ==
    IF ~fontLoaded
    THEN /\ last' = Thrown("generateMTSDFVar", <<charCode, fontSize, pixelRange>>, "Font not loaded")
         /\ UNCHANGED <<g_fontBuffer, g_pixelBuffer, g_axesBuffer, fontLoaded, fontLen, first, disposed, sinceDispose, env>>
    ELSE \E metricsPtr \in {Malloc40} :
         \E call \in {generate_mtsdf_glyph_var(g_fontBuffer, g_pixelBuffer, g_axesBuffer, fontLen,
                            charCode, fontSize, pixelRange, metricsPtr)} :
         LET HEAPF32 == call.outMetrics
             success == HEAPF32[1]
             width   == HEAPF32[2]
             height  == HEAPF32[3]
             advance == HEAPF32[4]
             l       == HEAPF32[5]
             b       == HEAPF32[6]
             r       == HEAPF32[7]
             t       == HEAPF32[8]
             pixelCount == RMul(RMul(width, height), R(4)).n
             pixels  == Subarray(call.pixelBuffer, pixelCount)
             calls   == <<"_malloc", "_generate_mtsdf_glyph_var", "_free">>
             ret     == IF success = R(0)
                        THEN Returned("generateMTSDFVar", <<charCode, fontSize, pixelRange>>, "null", << >>,
                                      call, calls, {0}, 0)
                        ELSE IF RLeq(width, R(0)) \/ RLeq(height, R(0))
                                \/ ~RLeq(width, R(MaxDim)) \/ ~RLeq(height, R(MaxDim))
                        THEN Returned("generateMTSDFVar", <<charCode, fontSize, pixelRange>>, "null", << >>,
                                      call, calls, 0..7, 0)
                        ELSE Returned("generateMTSDFVar", <<charCode, fontSize, pixelRange>>, "glyph",
                                      << [metrics |-> [width |-> width, height |-> height,
                                                       advance |-> advance,
                                                       planeBounds |-> [l |-> l, b |-> b, r |-> r, t |-> t],
                                                       atlasBounds |-> [l |-> R(0), b |-> R(0)]],
                                          pixels |-> pixels] >>,
                                      call, calls, 0..7, pixelCount)
         IN  /\ g_pixelBuffer' = call.pixelBuffer
             /\ last' = ret
             /\ first' = Remember(first, ret)
             /\ UNCHANGED <<g_fontBuffer, g_axesBuffer, fontLoaded, fontLen, disposed, sinceDispose, env>>

\* dispose that frees the buffers but leaves fontLoaded set
dispose_keepsFontLoaded ==
    /\ g_fontBuffer' = free_buffers.g_fontBuffer
    /\ g_pixelBuffer' = free_buffers.g_pixelBuffer
    /\ g_axesBuffer' = free_buffers.g_axesBuffer
    /\ last' = Plain("dispose", << >>, "", "void", <<"_free_buffers">>)
    /\ first' = Forget("dispose")
    /\ disposed' = TRUE
    /\ sinceDispose' = FALSE
    /\ UNCHANGED <<fontLoaded, fontLen, env>>

\* MSDFGenerator.dispose
dispose ==
    /\ g_fontBuffer' = free_buffers.g_fontBuffer
    /\ g_pixelBuffer' = free_buffers.g_pixelBuffer
    /\ g_axesBuffer' = free_buffers.g_axesBuffer
    /\ fontLoaded' = FALSE
    /\ last' = Plain("dispose", << >>, "", "void", <<"_free_buffers">>)
    /\ first' = Forget("dispose")
    /\ disposed' = TRUE
    /\ sinceDispose' = FALSE
    /\ UNCHANGED <<fontLen, env>>

----------------------------------------------------------------------------------------------------------------------------------------------------
(* The instance after MSDFGenerator.init, and the calls a caller can make *)

MaxFontSize == 3

\* (fontSize, pixelRange) pairs: every whole font size up to MaxFontSize with a
\* range of 2
Sizes == { <<R(size), R(2)>> : size \in 1..MaxFontSize }

\* the smallest and the largest of them
TwoSizes == { <<R(1), R(2)>>, <<R(MaxFontSize), R(2)>> }

\* ... and a degenerate pair
Params == { <<R(0), R(0)>> } \cup Sizes

Weight == <<"w", "g", "h", "t">>

Bold == << [tag |-> Weight, value |-> 900] >>

\* a tag that is none of the standard ones, and a standard one the fonts lack
Grade == <<"G", "R", "A", "D">>

Width == <<"w", "d", "t", "h">>

AxisLists ==
    { << >>,
      Bold,
      << [tag |-> Grade, value |-> 1] >>,
      << [tag |-> Width, value |-> 75] >>,
      << [tag |-> Weight, value |-> 900], [tag |-> Weight, value |-> DefaultWeight] >>,
      << [tag |-> Weight, value |-> DefaultWeight], [tag |-> Weight, value |-> 900] >>,
      << [tag |-> Grade, value |-> 1], [tag |-> Weight, value |-> 900] >>,
      << [tag |-> <<"U+0177", "g", "h", "t">>, value |-> 900] >>,
      << [tag |-> Weight, value |-> 900], [tag |-> <<"w", "g">>, value |-> 1] >> }

\* a caller that renders one codepoint, with a font file that parses and one
\* that does not
SingleGlyphCallers ==
    { [fonts |-> {InterBytes, BadBytes}, chars |-> {c}, params |-> Params,
       axisLists |-> {<< >>, Bold}, freetype |-> "ft", track |-> FALSE, resets |-> Changers] : c \in CharCodes }

\* callers of one font file that parses, comparing the results of their calls
ComparingCallers ==
    { [fonts |-> {InterBytes}, chars |-> {c}, params |-> Sizes,
       axisLists |-> {<< >>, Bold}, freetype |-> "ft", track |-> TRUE, resets |-> Changers] : c \in CharCodes }

\* font sizes that put the bitmap of the unit box at the largest dimension the
\* wrapper accepts and one pixel beyond it
EdgeSizes ==
    { <<R(UnitsPerEm * (MaxDim - 2)), R(2)>>, <<R(UnitsPerEm * (MaxDim - 1)), R(2)>> }

\* callers that ask for bitmaps of no extent, of ordinary size and around the
\* largest size accepted
EdgeCallers ==
    { [fonts |-> {InterBytes}, chars |-> {c},
       params |-> {<<R(0), R(0)>>, <<R(1), R(2)>>} \cup EdgeSizes,
       axisLists |-> {<< >>, Bold}, freetype |-> "ft", track |-> FALSE, resets |-> Changers] :
      c \in {CharA, CharSpace} }

\* callers that keep the first glyph they were given for the life of the instance
KeepingCallers ==
    { [fonts |-> {InterBytes}, chars |-> {c}, params |-> TwoSizes,
       axisLists |-> {<< >>, Bold}, freetype |-> "ft", track |-> TRUE, resets |-> {}] : c \in {CharA, CharSpace} }

Start ==
    /\ g_fontBuffer = << >>
    /\ g_pixelBuffer = EmptyPixelBuffer
    /\ g_axesBuffer = << >>
    /\ fontLoaded = FALSE
    /\ fontLen = 0
    /\ last = Plain("init", << >>, "", "void", << >>)
    /\ first = << >>
    /\ disposed = FALSE
    /\ sinceDispose = FALSE

\* no worker thread has been spawned
NoWorkers == workers = << >>

Init == Start /\ NoWorkers /\ env \in SingleGlyphCallers

InitCompare == Start /\ NoWorkers /\ env \in ComparingCallers

\* callers that set axes of every kind, on a variable font, a static font and
\* a file that is no font, and compare generation calls across changes of the
\* axis set
AxisCallers ==
    { [fonts |-> {InterBytes, PoppinsBytes, BadBytes}, chars |-> {c}, params |-> {<<R(1), R(2)>>},
       axisLists |-> AxisLists, freetype |-> "ft", track |-> TRUE, resets |-> {"loadFont", "dispose"}] :
      c \in {CharA, CharB} }

InitKeep == Start /\ NoWorkers /\ env \in KeepingCallers

InitAxes == Start /\ NoWorkers /\ env \in AxisCallers

InitEdge == Start /\ NoWorkers /\ env \in EdgeCallers

\* callers of a codepoint that renders and of one whose outline does not load,
\* with a font file that parses and one that does not, where FreeType
\* initialises and where it does not
HandleCallers ==
    { [fonts |-> {InterBytes, BadBytes}, chars |-> {c}, params |-> {<<R(1), R(2)>>},
       axisLists |-> {<< >>, Bold}, freetype |-> f, track |-> FALSE, resets |-> Changers] :
      c \in {CharA, CharB}, f \in {"ft", Null} }

InitHandles == Start /\ NoWorkers /\ env \in HandleCallers

CallLoadFont == \E fontBytes \in env.fonts : loadFont(fontBytes) /\ UNCHANGED workers

CallHasGlyph == \E charCode \in env.chars : hasGlyph(charCode) /\ UNCHANGED workers

CallGenerate ==
    \E charCode \in env.chars, p \in env.params :
        generate(charCode, p[1], p[2]) /\ UNCHANGED workers

CallGenerateMTSDF ==
    \E charCode \in env.chars, p \in env.params :
        generateMTSDF(charCode, p[1], p[2]) /\ UNCHANGED workers

CallGenerateVar ==
    \E charCode \in env.chars, p \in env.params :
        generateVar(charCode, p[1], p[2]) /\ UNCHANGED workers

CallGenerateMTSDFVar ==
    \E charCode \in env.chars, p \in env.params :
        generateMTSDFVar(charCode, p[1], p[2]) /\ UNCHANGED workers

CallSetVariationAxes == \E axes \in env.axisLists : setVariationAxes(axes) /\ UNCHANGED workers

CallClearVariationAxes == clearVariationAxes /\ UNCHANGED workers

CallDispose == dispose /\ UNCHANGED workers

Next ==
    \/ CallLoadFont
    \/ CallHasGlyph
    \/ CallGenerate
    \/ CallGenerateMTSDF
    \/ CallGenerateVar
    \/ CallGenerateMTSDFVar
    \/ CallSetVariationAxes
    \/ CallClearVariationAxes
    \/ CallDispose

Spec == Init /\ [][Next]_vars

SpecCompare == InitCompare /\ [][Next]_vars

SpecKeep == InitKeep /\ [][Next]_vars

SpecAxes == InitAxes /\ [][Next]_vars

SpecEdge == InitEdge /\ [][Next]_vars

SpecHandles == InitHandles /\ [][Next]_vars

----------------------------------------------------------------------------
(* worker.ts, worker-deno.ts: one worker thread per entry of workers *)

\* the worker threads the parent spawns
Workers == {"w1", "w2"}

\* await factory(...): a new instance of the WASM module, its buffers empty
Factory == [g_fontBuffer |-> << >>, g_pixelBuffer |-> EmptyPixelBuffer, g_axesBuffer |-> << >>]

\* init.wasmPath (wasmJsUrl, wasmBinaryUrl for Deno): a path the module loads
\* from and one that readFile / fetch / import rejects
WasmPaths == {"msdfgen.wasm", "missing.wasm"}

\* the awaits of initWorker called with this path all resolve
Loads(wasmPath) == wasmPath = "msdfgen.wasm"

\* the module-level variables of a worker before any message (wasmModule is
\* null, written as the empty sequence), no result posted yet and no export
\* called by generateGlyph yet
NewWorker ==
    [wasmModule |-> << >>, fontLoaded |-> FALSE, fontLen |-> 0, result |-> << >>, lastCall |-> << >>]

\* what the parent of a worker has seen of it: whether ready was posted for
\* the last init received, whether the last generate was received before that
\* ready, and the last run of the worker, by what it was started (a message
\* received or initWorker resuming) and what it posted
NotSeen == [ready |-> FALSE, early |-> FALSE, received |-> [type |-> "none", charCode |-> 0],
            posted |-> << >>]

\* a run started by initWorker resuming from an await
Resumed == [type |-> "resumed", charCode |-> 0]

\* ... kept by the parents that keep track
Note(seen, ready, early, received, posted) ==
    IF env.track THEN [ready |-> ready, early |-> early, received |-> received, posted |-> posted]
    ELSE seen

\* initWorker from the point where the awaits have resolved: wasmModule is the
\* new instance, the font is copied into its font buffer, fontLoaded is set
initWorker_resumed(w, fontBytes) ==
    [w EXCEPT !.wasmModule = << [Factory EXCEPT !.g_fontBuffer =
                                    HeapSet(prepare_font_buffer(Factory.g_fontBuffer, Len(fontBytes)),
                                            fontBytes)] >>,
              !.fontLen = Len(fontBytes),
              !.fontLoaded = TRUE]

\* initWorker resuming in one worker and loading the font into every worker
initWorker_allWorkers(pool, id, init) ==
    [i \in Workers |-> [pool[i] EXCEPT !.pending = IF i = id THEN @ \ {init} ELSE @,
                                        !.real = initWorker_resumed(@, init.fontBytes),
                                        !.solo = IF i = id THEN initWorker_resumed(@, init.fontBytes) ELSE @,
                                        !.seen = IF i = id THEN Note(@, TRUE, @.early, Resumed, <<"ready">>)
                                                 ELSE @]]

\* initWorker resuming in worker id and loading the font without posting ready
initWorker_silent(pool, id, init) ==
    [pool EXCEPT ![id].pending = @ \ {init},
                 ![id].real = initWorker_resumed(@, init.fontBytes),
                 ![id].solo = initWorker_resumed(@, init.fontBytes),
                 ![id].seen = Note(@, TRUE, @.early, Resumed, << >>)]

\* initWorker resuming in worker id: an await that rejects ends the call with
\* nothing changed and nothing posted; otherwise only the variables of that
\* worker change and ready is posted
initWorker(pool, id, init) ==
    IF ~Loads(init.wasmPath)
    THEN [pool EXCEPT ![id].pending = @ \ {init},
                      ![id].seen = Note(@, @.ready, @.early, Resumed, << >>)]
    ELSE [pool EXCEPT ![id].pending = @ \ {init},
                      ![id].real = initWorker_resumed(@, init.fontBytes),
                      ![id].solo = initWorker_resumed(@, init.fontBytes),
                      ![id].seen = Note(@, TRUE, @.early, Resumed, <<"ready">>)]

\* what fontLen bytes read at g_fontBuffer.data() give: the buffer when it holds
\* that many, and otherwise, the read running past the end of the vector,
\* whatever the memory there holds (stale)
FontBytesRead(w, stale) ==
    IF Len(w.wasmModule[1].g_fontBuffer) >= w.fontLen THEN w.wasmModule[1].g_fontBuffer ELSE stale

\* fonts the parent sends
WorkerFonts == env.fonts

\* what memory past the end of the font buffer of a worker can hold: nothing
\* that parses, or the bytes of a font of that length left there
StaleReads(w) == {<< >>} \cup {f \in WorkerFonts : Len(f) = w.fontLen}

\* generateGlyph(task) and the result posted (timeMs, a clock reading, is kept
\* only where it is the constant 0), with the exports called, the sizes the
\* generation export was called with and the font bytes it read
generateGlyph(w, task, stale) ==
    IF ~w.fontLoaded
    THEN [w EXCEPT !.result = << [charCode |-> task.charCode, success |-> FALSE, timeMs |-> "0"] >>,
                   !.lastCall = << >>]
    ELSE LET channels == IF task.glyphType = "mtsdf" THEN 4 ELSE 3
             export == IF task.glyphType = "mtsdf" THEN "_generate_mtsdf_glyph" ELSE "_generate_glyph"
             called == << [export |-> export,
                           wasmCalls |-> <<"_malloc", export, "_free">>,
                           held |-> Len(w.wasmModule[1].g_fontBuffer),
                           fontLen |-> w.fontLen,
                           read |-> FontBytesRead(w, stale)] >>
             Done(call) ==
                 IF call.outMetrics[1] = R(0)
                 THEN [w EXCEPT !.wasmModule[1].g_pixelBuffer = call.pixelBuffer,
                                !.lastCall = called,
                                !.result = << [charCode |-> task.charCode, success |-> FALSE,
                                               timeMs |-> "elapsed"] >>]
                 ELSE [w EXCEPT !.wasmModule[1].g_pixelBuffer = call.pixelBuffer,
                                !.lastCall = called,
                                !.result =
                                    << [charCode |-> task.charCode, success |-> TRUE,
                                        metrics |-> [width |-> call.outMetrics[2],
                                                     height |-> call.outMetrics[3],
                                                     advance |-> call.outMetrics[4],
                                                     planeBounds |-> [l |-> call.outMetrics[5],
                                                                      b |-> call.outMetrics[6],
                                                                      r |-> call.outMetrics[7],
                                                                      t |-> call.outMetrics[8]]],
                                        pixels |-> Subarray(call.pixelBuffer,
                                                            RMul(RMul(call.outMetrics[2], call.outMetrics[3]),
                                                                 R(channels)).n),
                                        timeMs |-> "elapsed"] >>]
         IN  Done(IF task.glyphType = "mtsdf"
                  THEN generate_mtsdf_glyph(FontBytesRead(w, stale), w.wasmModule[1].g_pixelBuffer,
                                            w.fontLen, task.charCode, task.fontSize, task.pixelRange,
                                            Malloc40)
                  ELSE generate_glyph(FontBytesRead(w, stale), w.wasmModule[1].g_pixelBuffer,
                                      w.fontLen, task.charCode, task.fontSize, task.pixelRange,
                                      Malloc40))

\* the dispose branch of the message handler: _free_buffers when there is a module
disposeWorker(w) ==
    IF w.wasmModule = << >> THEN w ELSE [w EXCEPT !.wasmModule = << free_buffers >>]

\* a parent that runs a pool of workers on one codepoint and one bitmap format
PoolParents ==
    { [spawned |-> Workers, wasmPaths |-> {"msdfgen.wasm"}, fonts |-> {InterBytes, BadBytes},
       chars |-> {CharA}, glyphTypes |-> {"msdf"},
       freetype |-> "ft", track |-> FALSE] }

\* a parent that runs one worker, on two codepoints and both bitmap formats,
\* may pass a path the module does not load from, and keeps track of what the
\* worker posts
LoneParents ==
    { [spawned |-> {"w1"}, wasmPaths |-> WasmPaths, fonts |-> {InterBytes, BadBytes},
       chars |-> {CharA, CharB},
       glyphTypes |-> {"msdf", "mtsdf"}, freetype |-> "ft", track |-> TRUE] }

\* tasks the parent sends
Tasks ==
    { [charCode |-> c, fontSize |-> R(1), pixelRange |-> R(2), glyphType |-> t] :
        c \in env.chars, t \in env.glyphTypes }

\* message init handled by worker id: initWorker runs up to its first await and
\* the handler of the next message may run before it resumes (the parent sends
\* a worker no second init while one is in flight)
OnInit(id, init) ==
    /\ workers[id].pending = {}
    /\ workers' = [workers EXCEPT ![id].pending = @ \cup {init},
                                  ![id].seen = Note(@, FALSE, @.early, [type |-> "init", charCode |-> 0],
                                                    << >>),
                                  ![id].atOnce.usable =
                                      loadFontData(initializeFreetype, init.fontBytes, Len(init.fontBytes)).ok]

\* the awaits of an initWorker call of worker id settle
InitResumes(id, init) ==
    /\ init \in workers[id].pending
    /\ workers' = initWorker(workers, id, init)

\* message generate handled by worker id: generateGlyph, then the result posted
OnGenerate(id, task) ==
    \E stale \in StaleReads(workers[id].real) :
        workers' = [workers EXCEPT ![id].real = generateGlyph(@, task, stale),
                                   ![id].solo = generateGlyph(@, task, stale),
                                   ![id].seen = Note(@, @.ready, ~@.ready,
                                                     [type |-> "generate", charCode |-> task.charCode],
                                                     <<"result">>),
                                   ![id].atOnce.promised = workers[id].atOnce.usable]

\* message dispose handled by worker id
OnDispose(id) ==
    workers' = [workers EXCEPT ![id].real = disposeWorker(@),
                               ![id].solo = disposeWorker(@),
                               ![id].seen = Note(@, @.ready, @.early, [type |-> "dispose", charCode |-> 0],
                                                 <<"disposed">>),
                               ![id].atOnce.usable = FALSE]

\* the variables of the MSDFGenerator instance, which the workers never use
instance == <<g_fontBuffer, g_pixelBuffer, g_axesBuffer, fontLoaded, fontLen, last, first,
              disposed, sinceDispose, env>>

\* every worker as spawned. Beside its variables (real) each entry keeps the
\* init calls in flight (pending), what its parent has seen of it (seen), a
\* reference run of the same handlers (solo) fed
\* the events of this worker and nothing else, and what its messages alone say
\* (atOnce): whether the last init received brought a font that parses with no
\* dispose received since (usable), and whether that was so when the last
\* generate was received (promised)
Spawned ==
    workers = [id \in Workers |-> [real |-> NewWorker, solo |-> NewWorker,
                                   atOnce |-> [usable |-> FALSE, promised |-> FALSE],
                                   pending |-> {}, seen |-> NotSeen]]

InitWorkers == Start /\ env \in PoolParents /\ Spawned

InitWorker == Start /\ env \in LoneParents /\ Spawned

WorkerInit ==
    \E id \in env.spawned, wasmPath \in env.wasmPaths, fontBytes \in WorkerFonts :
        OnInit(id, [wasmPath |-> wasmPath, fontBytes |-> fontBytes]) /\ UNCHANGED instance

WorkerInitResumes ==
    \E id \in env.spawned, wasmPath \in env.wasmPaths, fontBytes \in WorkerFonts :
        InitResumes(id, [wasmPath |-> wasmPath, fontBytes |-> fontBytes]) /\ UNCHANGED instance

WorkerGenerate == \E id \in env.spawned, task \in Tasks : OnGenerate(id, task) /\ UNCHANGED instance

WorkerDispose == \E id \in env.spawned : OnDispose(id) /\ UNCHANGED instance

NextWorkers ==
    \/ WorkerInit
    \/ WorkerInitResumes
    \/ WorkerGenerate
    \/ WorkerDispose

SpecWorkers == InitWorkers /\ [][NextWorkers]_vars

SpecWorker == InitWorker /\ [][NextWorkers]_vars

\* a program that uses an MSDFGenerator instance and runs a worker beside it
HeapCallers ==
    { [fonts |-> {InterBytes}, chars |-> {c},
       params |-> {<<R(1), R(2)>>, <<R(UnitsPerEm * (MaxDim - 1)), R(2)>>},
       axisLists |-> {<< [tag |-> Weight, value |-> 900], [tag |-> <<"w", "g">>, value |-> 1] >>},
       resets |-> Changers, spawned |-> {"w1"}, wasmPaths |-> {"msdfgen.wasm"},
       glyphTypes |-> {"msdf"}, freetype |-> "ft", track |-> FALSE] : c \in {CharA, CharB} }

InitHeap == Start /\ env \in HeapCallers /\ Spawned

NextHeap ==
    \/ Next
    \/ NextWorkers

SpecHeap == InitHeap /\ [][NextHeap]_vars

\* the awaits of initWorker settle in the end
SpecWorkerFair == SpecWorker /\ WF_vars(WorkerInitResumes)

----------------------------------------------------------------------------
(* Properties *)

GenOps == {"generate", "generateMTSDF", "generateVar", "generateMTSDFVar"}

\* call c is a generation call that went through to the core
Ran(c) == c.op \in GenOps /\ c.threw = ""

\* the GlyphResult the core produced in call c
CoreOf(c) == c.core[1]

\* channels of the bitmap format a generation method produces
Channels(op) == IF op \in {"generate", "generateVar"} THEN 3 ELSE 4

\* scale of a generation call: fontSize / emSize
ScaleOf(c) == RDiv(c.args[2], R(UnitsPerEm))

\* the font the buffer holds, as the core sees it
FontNow == loadFontData(initializeFreetype, g_fontBuffer, fontLen)

\* the font parses and the outline of the glyph the codepoint maps to decodes
OutlineLoads(charCode) ==
    FontNow.ok /\ GlyphData(FontNow, CharIndex(FontNow.face, charCode)).ok

\* ... and the bounds of that outline are empty: left >= right or bottom >= top
EmptyBounds(charCode) ==
    /\ OutlineLoads(charCode)
    /\ LET bnd == boundPoints(GlyphData(FontNow, CharIndex(FontNow.face, charCode)).contours, StartBox)
       IN  RGeq(bnd.l, bnd.r) \/ RGeq(bnd.b, bnd.t)

\* the step is a generation call for the codepoint the preceding hasGlyph asked about
ProbedThenGenerated(answer) ==
    /\ last.op = "hasGlyph"
    /\ last.returned = answer
    /\ Ran(last')
    /\ last'.args[1] = last.args[1]

\* C1 as stated: whenever hasGlyph has returned true, a generation call for
\* that codepoint reports success with width > 0 and height > 0, whatever the
\* fontSize and pixelRange.
C1_ProbeTrueThenSuccess ==
    [][ProbedThenGenerated("true")
        => /\ CoreOf(last').success
           /\ CoreOf(last').width > 0
           /\ CoreOf(last').height > 0]_vars

\* C1 amended: after hasGlyph returned true, a generation call for that
\* codepoint reports success exactly when the outline of the glyph decodes, and
\* a successful call with fontSize > 0 and pixelRange > 0 has width > 0 and
\* height > 0.
C1_ProbeTrueThenSuccessIfOutlineLoads ==
    [][ProbedThenGenerated("true")
        => /\ CoreOf(last').success <=> OutlineLoads(last.args[1])
           /\ (CoreOf(last').success /\ last'.args[2].n > 0 /\ last'.args[3].n > 0)
                 => (CoreOf(last').width > 0 /\ CoreOf(last').height > 0)]_vars

C1_Witness ==
    /\ Ran(last)
    /\ core_hasGlyph(g_fontBuffer, fontLen, last.args[1])
    /\ last.args[2].n > 0
    /\ CoreOf(last).success
    /\ CoreOf(last).width > 0

\* C2: whenever hasGlyph has returned false, a generation call for that
\* codepoint fails: the core reports success = false and the wrapper returns
\* null.
C2_ProbeFalseThenFailure ==
    [][ProbedThenGenerated("false")
        => (~CoreOf(last').success /\ last'.returned = "null")]_vars

\* C3: a generation call that repeats the first call made since the font and
\* the axis set last changed (same method, charCode, fontSize, pixelRange)
\* returns the same metrics and the same pixels, whatever generation and
\* hasGlyph calls were made in between.
C3_Idempotent ==
    [][(/\ first # << >>
        /\ first' # << >>
        /\ Ran(last')
        /\ last'.op = first[1].call.op
        /\ last'.args = first[1].call.args)
        => (/\ last'.returned = first[1].call.returned
            /\ last'.glyph = first[1].call.glyph)]_vars

C3_Witness ==
    /\ first # << >>
    /\ first[1].again
    /\ Ran(last)
    /\ last.op = first[1].call.op
    /\ last.args = first[1].call.args
    /\ last.returned = "glyph"
    /\ g_pixelBuffer.size > last.glyph[1].pixels.length

\* C4: a glyph returned by generate or generateVar has
\* pixels.length = width * height * 3, one returned by generateMTSDF or
\* generateMTSDFVar has pixels.length = width * height * 4.
C4_ChannelCount ==
    last.returned = "glyph"
        => last.glyph[1].pixels.length
             = last.glyph[1].metrics.width.n * last.glyph[1].metrics.height.n * Channels(last.op)

C4_Witness ==
    /\ last.op = "generateMTSDFVar"
    /\ last.returned = "glyph"
    /\ last.glyph[1].pixels.length > 0
    /\ g_pixelBuffer.size > last.glyph[1].pixels.length

MissingGlyph(charCode) == ~core_hasGlyph(g_fontBuffer, fontLen, charCode)

DimsAccepted(w, h) == w >= 1 /\ h >= 1 /\ w <= MaxDim /\ h <= MaxDim

C7_MonotonicScaling ==
    (/\ first # << >>
     /\ Ran(last)
     /\ last.op = first[1].call.op
     /\ last.args[1] = first[1].call.args[1]
     /\ last.args[3] = first[1].call.args[3]
     /\ last.returned = "glyph"
     /\ first[1].call.returned = "glyph")
        => LET a == first[1].call
               b == last
               am == a.glyph[1].metrics
               bm == b.glyph[1].metrics
           IN  /\ RLeq(a.args[2], b.args[2])
                    => (RLeq(am.width, bm.width) /\ RLeq(am.height, bm.height))
               /\ RLeq(b.args[2], a.args[2])
                    => (RLeq(bm.width, am.width) /\ RLeq(bm.height, am.height))

C7_Witness ==
    /\ first # << >>
    /\ Ran(last)
    /\ last.op = first[1].call.op
    /\ last.args[1] = first[1].call.args[1]
    /\ last.args[3] = first[1].call.args[3]
    /\ last.returned = "glyph"
    /\ first[1].call.returned = "glyph"
    /\ first[1].call.args[2] = R(1)
    /\ last.args[2] = R(MaxFontSize)
    /\ first[1].call.glyph[1].metrics.width.n < last.glyph[1].metrics.width.n

\* C8: a generation call whose font or glyph does not load fails in the core
\* (success = false), and a call in which the core fails leaves no partial
\* result: the binding writes only outMetrics[0] = 0, returns a null pointer
\* and leaves the pixel buffer as it was; the wrapper returns null having read
\* only metrics slot 0 and no pixel.
C8_NoPartialResult ==
    [][/\ (Ran(last') /\ ~OutlineLoads(last'.args[1])) => ~CoreOf(last').success
       /\ (Ran(last') /\ ~CoreOf(last').success)
        => /\ last'.outMetrics = [Malloc40 EXCEPT ![1] = R(0)]
           /\ last'.ptr = Null
           /\ g_pixelBuffer' = g_pixelBuffer
           /\ last'.returned = "null"
           /\ last'.metricsRead = {0}
           /\ last'.pixelsRead = 0]_vars

C8_Witness ==
    /\ Ran(last)
    /\ ~CoreOf(last).success
    /\ last.returned = "null"
    /\ g_pixelBuffer.len > 0

\* C9: while loadFont has not been called since construction or since the
\* last dispose, hasGlyph and the four generation methods throw
\* "Font not loaded", call no export of the WASM module and change no buffer.
C9_LoadFontFirst ==
    [][(~sinceDispose /\ last'.op \in GenOps \cup {"hasGlyph"})
        => /\ last'.threw = "Font not loaded"
           /\ last'.wasmCalls = << >>
           /\ UNCHANGED <<g_fontBuffer, g_pixelBuffer, g_axesBuffer>>]_vars

C9_Witness ==
    /\ ~sinceDispose
    /\ disposed
    /\ last.op = "generateVar"
    /\ last.threw = "Font not loaded"

\* C10: once dispose() has been called, no hasGlyph call returns true and no
\* generation call returns a glyph, whatever is called after it.
C10_UnusableAfterDispose ==
    disposed => ~(last.op \in GenOps \cup {"hasGlyph"} /\ last.returned \in {"glyph", "true"})

\* C11: the pixels and metrics of a glyph the caller was given stay what they
\* were when it was returned, whatever is called on the instance afterwards;
\* the pixel scratch buffer the result pointer referred to does not.
C11_CopyOut ==
    (first # << >> /\ first[1].call.returned = "glyph")
        => LET glyph == first[1].call.glyph[1]
           IN  /\ Contents(glyph.pixels) = [data |-> glyph.pixels.data, valid |-> glyph.pixels.valid]
               /\ glyph.pixels.valid = glyph.pixels.length
               /\ glyph.pixels.data = <<CoreOf(first[1].call).pixels.src>>
               /\ glyph.metrics.width = R(CoreOf(first[1].call).width)
               /\ glyph.metrics.height = R(CoreOf(first[1].call).height)

C11_Witness ==
    /\ first # << >>
    /\ first[1].call.returned = "glyph"
    /\ first[1].again
    /\ disposed
    /\ Ran(last)
    /\ last.returned = "glyph"
    /\ g_pixelBuffer.data # first[1].call.glyph[1].pixels.data

VarOps == {"generateVar", "generateMTSDFVar"}

\* the shape the core rasterized in call c
Rendered(c) == CoreOf(c).pixels.src[1]

\* the weight of the instance of a font once the axes of a list have been
\* applied to it in order: an axis counts when its tag is wght and the font has
\* a weight axis
RECURSIVE DesignWeight(_, _)
DesignWeight(font, axes) ==
    IF axes = << >> THEN font.wght
    ELSE DesignWeight(IF Head(axes).tag = Weight /\ "Weight" \in font.axes
                      THEN [font EXCEPT !.wght = Head(axes).value]
                      ELSE font,
                      Tail(axes))

\* the outline of the glyph of a codepoint in the instance of the loaded font
\* that an axis list selects
OutlineAt(charCode, axes) ==
    GlyphData([FontNow EXCEPT !.wght = DesignWeight(FontNow, axes)],
              CharIndex(FontNow.face, charCode)).contours

\* C12: whatever the axis set, generateVar and generateMTSDFVar succeed exactly
\* when the font and the outline of the glyph load; axes with an unknown tag
\* and axes the font does not have leave no trace: the outline rendered is that
\* of the instance the remaining axes select.
C12_AxesNeverFail ==
    (Ran(last) /\ last.op \in VarOps)
        => /\ CoreOf(last).success <=> OutlineLoads(last.args[1])
           /\ CoreOf(last).success
                 => Rendered(last).contours = OutlineAt(last.args[1], g_axesBuffer)

C12_Witness ==
    /\ Ran(last)
    /\ last.op = "generateVar"
    /\ g_axesBuffer = << [tag |-> Grade, value |-> 1], [tag |-> Weight, value |-> 900] >>
    /\ CoreOf(last).success
    /\ Rendered(last).contours # OutlineAt(last.args[1], << >>)

\* the axes of a list that come before the first tag that is not four code
\* units long
RECURSIVE BeforeBadTag(_)
BeforeBadTag(axes) ==
    IF axes = << >> \/ Len(Head(axes).tag) # 4 THEN << >>
    ELSE <<Head(axes)>> \o BeforeBadTag(Tail(axes))

\* an axis list with every tag reduced to the low bytes of its code units
AsBytes(axes) ==
    [i \in 1..Len(axes) |-> [tag |-> [k \in 1..4 |-> Byte(axes[i].tag[k])], value |-> axes[i].value]]

\* generateVar and generateMTSDFVar render the instance the axes buffer selects,
\* applied in order, and no call but setVariationAxes, clearVariationAxes and
\* dispose changes the buffer
RendersAxesBuffer ==
    /\ last'.op \in {"clearVariationAxes", "dispose"} => g_axesBuffer' = << >>
    /\ last'.op \notin {"setVariationAxes", "clearVariationAxes", "dispose"}
         => g_axesBuffer' = g_axesBuffer
    /\ (Ran(last') /\ last'.op \in VarOps /\ CoreOf(last').success)
         => /\ Rendered(last').contours = OutlineAt(last'.args[1], g_axesBuffer)
            /\ CoreOf(last').advance
                 = RMul(GlyphData([FontNow EXCEPT !.wght = DesignWeight(FontNow, g_axesBuffer)],
                                  CharIndex(FontNow.face, last'.args[1])).advance,
                        ScaleOf(last'))

DefaultInstance(op) ==
    CASE op = "generateVar" -> "generate"
      [] op = "generateMTSDFVar" -> "generateMTSDF"
      [] OTHER -> op

\* C14: with an empty axis set, as clearVariationAxes leaves it, generateVar
\* returns the same metrics and pixels as generate, and generateMTSDFVar the
\* same as generateMTSDF, for the same font, charCode, fontSize and pixelRange,
\* whichever of the two is called first.
C14_VarOfDefaultInstance ==
    (/\ first # << >>
     /\ Ran(last)
     /\ g_axesBuffer = << >>
     /\ last.op # first[1].call.op
     /\ DefaultInstance(last.op) = DefaultInstance(first[1].call.op)
     /\ last.args = first[1].call.args)
        => (/\ last.returned = first[1].call.returned
            /\ last.glyph = first[1].call.glyph)

C14_Witness ==
    /\ first # << >>
    /\ first[1].cleared
    /\ first[1].call.op = "generateMTSDF"
    /\ last.op = "generateMTSDFVar"
    /\ last.args = first[1].call.args
    /\ last.returned = "glyph"
    /\ last.glyph = first[1].call.glyph
    /\ g_axesBuffer = << >>
    /\ disposed

PlainOps == {"generate", "generateMTSDF"}

\* C15: generate and generateMTSDF render the default instance of the font
\* whatever the axes buffer holds, and return what the first such call on the
\* font returned however the axis set was changed and used in between; the
\* answer of hasGlyph is decided by the font and the codepoint alone.
C15_AxesOnlyForVar ==
    /\ (Ran(last) /\ last.op \in PlainOps /\ CoreOf(last).success)
         => Rendered(last).contours = OutlineAt(last.args[1], << >>)
    /\ (first # << >> /\ Ran(last) /\ last.op \in PlainOps
           /\ last.op = first[1].call.op /\ last.args = first[1].call.args)
         => (last.returned = first[1].call.returned /\ last.glyph = first[1].call.glyph)
    /\ (last.op = "hasGlyph" /\ last.threw = "")
         => (last.returned = "true"
               <=> (FontNow.ok /\ CharIndex(FontNow.face, last.args[1]) # 0))

C15_Witness ==
    /\ first # << >>
    /\ first[1].again
    /\ first[1].call.op = "generate"
    /\ last.op = "generate"
    /\ last.args = first[1].call.args
    /\ last.returned = "glyph"
    /\ g_axesBuffer = Bold
    /\ Rendered(last).contours # OutlineAt(last.args[1], g_axesBuffer)

\* C16: a hasGlyph call leaves the font buffer, the pixel buffer, the axes
\* buffer and the loaded-font state as they were, calls no export but
\* _has_glyph and reads no core result or pixel; and a generation call made
\* right after a hasGlyph call returns what the first such call since the font
\* and the axis set last changed returned.
C16_ProbeHasNoEffect ==
    [][/\ last'.op = "hasGlyph"
            => /\ UNCHANGED <<g_fontBuffer, g_pixelBuffer, g_axesBuffer, fontLoaded, fontLen>>
               /\ last'.wasmCalls \in {<< >>, <<"_has_glyph">>}
               /\ last'.core = << >>
               /\ last'.pixelsRead = 0
       /\ (/\ last.op = "hasGlyph"
           /\ first # << >>
           /\ Ran(last')
           /\ last'.op = first[1].call.op
           /\ last'.args = first[1].call.args)
            => (last'.returned = first[1].call.returned /\ last'.glyph = first[1].call.glyph)]_vars

C16_Witness ==
    /\ last.op = "hasGlyph"
    /\ last.returned = "true"
    /\ first # << >>
    /\ first[1].call.returned = "glyph"
    /\ g_pixelBuffer.len > 0
    /\ g_axesBuffer # << >>
    /\ g_pixelBuffer.data # <<generate_glyph(g_fontBuffer, g_pixelBuffer, fontLen, last.args[1], R(1), R(2),
                                             [i \in 1..10 |-> R(0)]).res.pixels.src>>

\* the glyph of the codepoint of call c in the instance of the font the call
\* renders: the one the axes buffer selects for the Var methods, the default
\* one for the others
GlyphOf(c) ==
    GlyphData([FontNow EXCEPT !.wght = DesignWeight(FontNow, IF c.op \in VarOps
                                                              THEN g_axesBuffer ELSE << >>)],
              CharIndex(FontNow.face, c.args[1]))

\* the bounds of a glyph, or the unit box when they are empty
BoxOf(glyph) ==
    LET bnd == boundPoints(glyph.contours, StartBox)
    IN  IF RGeq(bnd.l, bnd.r) \/ RGeq(bnd.b, bnd.t) THEN UnitBox ELSE bnd

\* C17: on success advance = designAdvance * scale and
\* planeBounds = (l, b, r, t) * scale with scale = fontSize / emSize, where
\* (l, b, r, t) bounds the shape (the unit box for an empty shape); pixelRange
\* enters neither, and the wrapper returns both as the core computed them.
C17_MetricsInPixelSpace ==
    (Ran(last) /\ CoreOf(last).success)
        => LET glyph == GlyphOf(last)
               box == BoxOf(glyph)
               scale == ScaleOf(last)
           IN  /\ CoreOf(last).advance = RMul(glyph.advance, scale)
               /\ CoreOf(last).planeBounds
                    = <<RMul(box.l, scale), RMul(box.b, scale), RMul(box.r, scale), RMul(box.t, scale)>>
               /\ last.returned = "glyph"
                    => /\ last.glyph[1].metrics.advance = CoreOf(last).advance
                       /\ last.glyph[1].metrics.planeBounds
                            = [l |-> CoreOf(last).planeBounds[1], b |-> CoreOf(last).planeBounds[2],
                               r |-> CoreOf(last).planeBounds[3], t |-> CoreOf(last).planeBounds[4]]

C17_Witness ==
    /\ Ran(last)
    /\ last.returned = "glyph"
    /\ last.args[1] = CharA
    /\ last.args[2] = R(MaxFontSize)
    /\ last.args[3] = R(2)
    /\ last.glyph[1].metrics.advance = RMul(GlyphOf(last).advance, Rat(MaxFontSize, UnitsPerEm))
    /\ last.glyph[1].metrics.width
         = RAdd(RSub(last.glyph[1].metrics.planeBounds.r, last.glyph[1].metrics.planeBounds.l), R(2))

\* C19: on success width = ceil((r - l) * scale + pixelRange) and
\* height = ceil((t - b) * scale + pixelRange) with scale = fontSize / emSize,
\* in all four generation methods; with an empty axis set two calls with the
\* same charCode, fontSize and pixelRange return the same width and height
\* whichever of the four methods each of them is.
C19_BitmapSize ==
    /\ (Ran(last) /\ CoreOf(last).success)
         => LET box == BoxOf(GlyphOf(last))
                scale == ScaleOf(last)
            IN  /\ CoreOf(last).width
                     = Ceil(RAdd(RMul(RSub(box.r, box.l), scale), last.args[3]))
                /\ CoreOf(last).height
                     = Ceil(RAdd(RMul(RSub(box.t, box.b), scale), last.args[3]))
    /\ (first # << >> /\ Ran(last) /\ g_axesBuffer = << >> /\ last.args = first[1].call.args)
         => /\ CoreOf(last).success = CoreOf(first[1].call).success
            /\ CoreOf(last).success
                 => /\ CoreOf(last).width = CoreOf(first[1].call).width
                    /\ CoreOf(last).height = CoreOf(first[1].call).height
            /\ last.returned = first[1].call.returned
            /\ last.returned = "glyph"
                 => /\ last.glyph[1].metrics.width = first[1].call.glyph[1].metrics.width
                    /\ last.glyph[1].metrics.height = first[1].call.glyph[1].metrics.height

C19_Witness ==
    /\ first # << >>
    /\ first[1].call.op = "generateVar"
    /\ last.op = "generateMTSDF"
    /\ last.args = first[1].call.args
    /\ last.args[2] = R(MaxFontSize)
    /\ g_axesBuffer = << >>
    /\ last.returned = "glyph"
    /\ last.glyph[1].metrics.width = first[1].call.glyph[1].metrics.width
    /\ last.glyph[1].metrics.width.n > last.args[3].n + 1

\* C20: what a generation call produces shows the order of its steps. When the
\* font does not load, or the outline does not load from the instance the axes
\* select, the result is the bare failure and no later step left a trace in
\* it, in the pixel buffer or in the value returned. Otherwise the outline is
\* the one of the instance selected by the axes (applied before loadGlyph), the
\* shape was normalized before edgeColoringSimple ran with threshold 3, the
\* projection rasterized is the one computed from the bounds, and the result
\* packed has the dimensions and channels of the raster.
C20_StepOrder ==
    [][Ran(last')
        => IF ~FontNow.ok \/ ~GlyphOf(last').ok
           THEN /\ CoreOf(last') = FailedResult(Channels(last'.op))
                /\ g_pixelBuffer' = g_pixelBuffer
                /\ last'.returned = "null"
           ELSE LET res == CoreOf(last')
                    raster == res.pixels.src
                    box == BoxOf(GlyphOf(last'))
                    scale == ScaleOf(last')
                IN  /\ res.success
                    /\ raster[1].contours = GlyphOf(last').contours
                    /\ raster[1].normalized
                    /\ raster[1].coloring = 3
                    /\ raster[2] = res.width /\ raster[3] = res.height
                    /\ raster[4] = scale
                    /\ raster[7] = last'.args[3]
                    /\ raster[8] = Channels(last'.op)
                    /\ res.pixels.len = res.width * res.height * Channels(last'.op)
                    /\ res.planeBounds[1] = RMul(box.l, scale)]_vars

C20_Witness ==
    /\ Ran(last)
    /\ last.op = "generateVar"
    /\ g_axesBuffer = Bold
    /\ CoreOf(last).success
    /\ Rendered(last).normalized
    /\ Rendered(last).coloring = 3
    /\ Rendered(last).contours # OutlineAt(last.args[1], << >>)
    /\ Rendered(last).contours = OutlineAt(last.args[1], Bold)

C21_GrowOnly ==
    [][last'.op # "dispose"
        => /\ Len(g_fontBuffer') >= Len(g_fontBuffer)
           /\ g_pixelBuffer'.size >= g_pixelBuffer.size
           /\ last'.op = "loadFont"
                => Len(g_fontBuffer') = Max(Len(g_fontBuffer), Len(last'.args[1]))
           /\ last'.op # "loadFont" => Len(g_fontBuffer') = Len(g_fontBuffer)
           /\ (Ran(last') /\ CoreOf(last').success)
                => LET needed == CoreOf(last').width * CoreOf(last').height * Channels(last'.op)
                   IN  /\ g_pixelBuffer'.size = Max(g_pixelBuffer.size, needed)
                       /\ g_pixelBuffer'.len = needed
           /\ ~(Ran(last') /\ CoreOf(last').success)
                => g_pixelBuffer'.size = g_pixelBuffer.size]_vars

C21_Witness ==
    /\ ~disposed
    /\ fontLoaded
    /\ fontLen < Len(g_fontBuffer)
    /\ Ran(last)
    /\ CoreOf(last).success
    /\ g_pixelBuffer.size > CoreOf(last).width * CoreOf(last).height * Channels(last.op)

\* width or height lies outside 1 .. 4096
OutOfRange(width, height) ==
    width < 1 \/ width > MaxDim \/ height < 1 \/ height > MaxDim

\* C22: a glyph returned by any of the four generation methods has
\* 1 <= width <= 4096 and 1 <= height <= 4096; when the core succeeds with a
\* width or height outside that range the method returns null and reads no
\* pixel, and when it succeeds within the range the method returns the glyph.
C22_DimensionBound ==
    Ran(last)
        => /\ last.returned = "glyph"
                => /\ RLeq(R(1), last.glyph[1].metrics.width)
                   /\ RLeq(last.glyph[1].metrics.width, R(MaxDim))
                   /\ RLeq(R(1), last.glyph[1].metrics.height)
                   /\ RLeq(last.glyph[1].metrics.height, R(MaxDim))
           /\ (CoreOf(last).success /\ OutOfRange(CoreOf(last).width, CoreOf(last).height))
                => (last.returned = "null" /\ last.glyph = << >> /\ last.pixelsRead = 0)
           /\ (CoreOf(last).success /\ ~OutOfRange(CoreOf(last).width, CoreOf(last).height))
                => last.returned = "glyph"

C22_Witness ==
    /\ Ran(last)
    /\ CoreOf(last).success
    /\ CoreOf(last).width = MaxDim + 1
    /\ CoreOf(last).height = MaxDim + 1
    /\ last.returned = "null"
    /\ last.pixelsRead = 0
    /\ g_pixelBuffer.len = (MaxDim + 1) * (MaxDim + 1) * Channels(last.op)

\* C23: loadFont leaves fontLoaded true, fontLen at the byte length of the font
\* passed and those bytes at the start of a font buffer of at least that size;
\* no call but loadFont and dispose changes fontLoaded, fontLen or the font
\* buffer, and dispose leaves fontLoaded false. So whenever fontLoaded is true
\* the first fontLen bytes of the buffer are the font loaded last, and a
\* generation call hands the core exactly that font.
C23_FontBufferHoldsFont ==
    [][/\ last'.op = "loadFont"
            => /\ fontLoaded'
               /\ fontLen' = Len(last'.args[1])
               /\ Len(g_fontBuffer') >= fontLen'
               /\ SubSeq(g_fontBuffer', 1, fontLen') = last'.args[1]
               /\ FontNow' = loadFontData(initializeFreetype, last'.args[1], Len(last'.args[1]))
       /\ last'.op \notin {"loadFont", "dispose"}
            => UNCHANGED <<g_fontBuffer, fontLen, fontLoaded>>
       /\ last'.op = "dispose" => ~fontLoaded'
       /\ fontLoaded' => Len(g_fontBuffer') >= fontLen']_vars

C23_Witness ==
    /\ fontLoaded
    /\ Ran(last)
    /\ CoreOf(last).success
    /\ fontLen = Len(PoppinsBytes)
    /\ SubSeq(g_fontBuffer, 1, fontLen) = PoppinsBytes
    /\ Len(g_fontBuffer) = Len(InterBytes)
    /\ g_fontBuffer[Len(InterBytes)] = InterBytes[Len(InterBytes)]
    /\ g_axesBuffer # << >>

\* C24 as stated: a worker calls a generation export only while the font buffer
\* of its module holds the fontLen bytes of the font: after dispose a generate
\* message is answered with success = false and no export is called.
C24_NoCallOnFreedBuffer ==
    \A id \in Workers :
        workers[id].real.lastCall # << >>
            => workers[id].real.lastCall[1].held >= workers[id].real.lastCall[1].fontLen

\* the last run of worker id was started by a message of this type
Handled(id, type) == workers[id].seen.received.type = type

\* an init of worker id is in flight whose awaits will all resolve
InitLoading(id) == \E init \in workers[id].pending : Loads(init.wasmPath)

\* the last run of worker id posted ready
ReadyPosted(id) == workers[id].seen.posted = <<"ready">>

\* every run of a worker posts what its message calls for: one result with the
\* charCode of the task for generate, disposed for dispose, nothing for init
\* before it resumes, and at most ready when initWorker resumes
Answers ==
    \A id \in Workers :
        /\ Handled(id, "generate")
            => /\ workers[id].seen.posted = <<"result">>
               /\ Len(workers[id].real.result) = 1
               /\ workers[id].real.result[1].charCode = workers[id].seen.received.charCode
        /\ Handled(id, "dispose") => workers[id].seen.posted = <<"disposed">>
        /\ Handled(id, "init") => workers[id].seen.posted = << >>
        /\ Handled(id, "resumed") => workers[id].seen.posted \in {<< >>, <<"ready">>}
        /\ Handled(id, "none") => workers[id].seen.posted = << >>

C26_GenerateAroundReady ==
    \A id \in Workers :
        Handled(id, "generate")
            => IF workers[id].seen.early
               THEN /\ ~workers[id].real.result[1].success
                    /\ workers[id].real.result[1].timeMs = "0"
                    /\ workers[id].real.lastCall = << >>
               ELSE /\ workers[id].real.lastCall # << >>
                    /\ workers[id].real.lastCall[1].held >= workers[id].real.lastCall[1].fontLen
                    /\ workers[id].real.lastCall[1].read \in WorkerFonts

\* C27 as stated: a setVariationAxes call that throws because a tag is not
\* four characters long leaves the axis set the instance held before the call.
C27_AtomicOnError ==
    [][(last'.op = "setVariationAxes" /\ last'.threw # "") => g_axesBuffer' = g_axesBuffer]_vars

\* call c went through to a core function that opens FreeType
ReachedCore(c) == Ran(c) \/ (c.op = "hasGlyph" /\ c.wasmCalls # << >>)

\* the handles the core function behind call c obtained and released
HandlesOf(c) ==
    CASE c.op = "hasGlyph" -> hasGlyph_handles(g_fontBuffer, fontLen, c.args[1])
      [] c.op = "generate" -> generateOne_handles(g_fontBuffer, fontLen, c.args[1])
      [] c.op = "generateMTSDF" -> generateOneMTSDF_handles(g_fontBuffer, fontLen, c.args[1])
      [] c.op = "generateVar" ->
            generateOneVar_handles(g_fontBuffer, fontLen, c.args[1], g_axesBuffer, Len(g_axesBuffer))
      [] c.op = "generateMTSDFVar" ->
            generateOneMTSDFVar_handles(g_fontBuffer, fontLen, c.args[1], g_axesBuffer,
                                        Len(g_axesBuffer))

\* every handle obtained in calls is released once, later, and nothing else is released
Settled(calls) ==
    /\ \A i \in 1..Len(calls) :
          calls[i].obtains # Null
              => /\ Cardinality({j \in 1..Len(calls) : calls[j].releases = calls[i].obtains}) = 1
                 /\ \A j \in 1..Len(calls) : calls[j].releases = calls[i].obtains => j > i
    /\ \A j \in 1..Len(calls) :
          calls[j].releases # Null
              => Cardinality({i \in 1..Len(calls) : calls[i].obtains = calls[j].releases}) = 1

\* C28: whichever way hasGlyph and the four core generation functions return
\* (FreeType does not initialise, the font does not load, the glyph does not
\* load, or the call succeeds), every FreeType handle and every font handle
\* they obtained has been released exactly once when they return, so none is
\* live between calls.
C28_HandlesSettled ==
    ReachedCore(last)
        => /\ Settled(HandlesOf(last))
           /\ Len(HandlesOf(last)) = 1 <=> initializeFreetype = Null
           /\ (Ran(last) /\ CoreOf(last).success) => Len(HandlesOf(last)) = 4

C28_Witness ==
    /\ last.op = "generateVar"
    /\ Ran(last)
    /\ ~CoreOf(last).success
    /\ FontNow.ok
    /\ g_axesBuffer = Bold
    /\ Settled(HandlesOf(last))
    /\ Len(HandlesOf(last)) = 4

\* the blocks still allocated after a run of exports: one more for each
\* _malloc, one less for each _free
RECURSIVE LiveAfter(_)
LiveAfter(calls) ==
    IF calls = << >> THEN 0
    ELSE LiveAfter(SubSeq(calls, 1, Len(calls) - 1))
            + (CASE calls[Len(calls)] = "_malloc" -> 1
                 [] calls[Len(calls)] = "_free" -> -1
                 [] OTHER -> 0)

Counterparts == { {"generate", "generateMTSDF"}, {"generateVar", "generateMTSDFVar"} }

\* C30: with no change of font or axis set in between, the 3-channel and the
\* 4-channel method of the same kind, called with the same charCode, fontSize
\* and pixelRange, both fail or both succeed with the same width, height,
\* advance and planeBounds; the results differ in the channel count and the
\* pixels only.
C30_SameMetricsBothFormats ==
    (/\ first # << >>
     /\ Ran(last)
     /\ {last.op, first[1].call.op} \in Counterparts
     /\ last.args = first[1].call.args)
        => /\ CoreOf(last).success = CoreOf(first[1].call).success
           /\ CoreOf(last).channels # CoreOf(first[1].call).channels
           /\ CoreOf(last).success
                => /\ CoreOf(last).width = CoreOf(first[1].call).width
                   /\ CoreOf(last).height = CoreOf(first[1].call).height
                   /\ CoreOf(last).advance = CoreOf(first[1].call).advance
                   /\ CoreOf(last).planeBounds = CoreOf(first[1].call).planeBounds
                   /\ CoreOf(last).pixels.len * Channels(first[1].call.op)
                        = CoreOf(first[1].call).pixels.len * Channels(last.op)
                   /\ Rendered(last) = Rendered(first[1].call)
           /\ SubSeq(last.outMetrics, 1, 8) = SubSeq(first[1].call.outMetrics, 1, 8)
           /\ last.returned = first[1].call.returned
           /\ last.returned = "glyph"
                => /\ last.glyph[1].metrics = first[1].call.glyph[1].metrics
                   /\ last.glyph[1].pixels # first[1].call.glyph[1].pixels

C30_Witness ==
    /\ first # << >>
    /\ first[1].call.op = "generateMTSDFVar"
    /\ last.op = "generateVar"
    /\ last.args = first[1].call.args
    /\ g_axesBuffer = Bold
    /\ last.returned = "glyph"
    /\ last.glyph[1].metrics = first[1].call.glyph[1].metrics
    /\ CoreOf(last).channels = 3
    /\ CoreOf(first[1].call).channels = 4

====
